---- MODULE Spec2Model ----
(***************************************************************************)
(* agentmem: a per-agent memory store on SQLite with FTS5 search.          *)
(*                                                                         *)
(* JavaScript strings that the code takes apart or compares (ids, agent    *)
(* ids, names, titles, contents, queries) are sequences of ASCII codes.    *)
(* Timestamps are seconds since 2026-01-01T00:00:00Z; they stand for ISO   *)
(* strings in the toISOString format, whose text order is the time order.  *)
(* Every SQL statement autocommits (the code opens no transaction), so a   *)
(* handler that throws keeps the statements it has already run.            *)
(*                                                                         *)
(* Ten specifications: Spec, the commands of two agents within one second  *)
(* of the clock; SpecClock, the commands of one agent with the clock       *)
(* advancing between them; SpecBulk, one agent storing more events than a  *)
(* session returns; SpecIds, stores that synthesize ids; SpecRace, two     *)
(* processes storing under one id, statement by statement; SpecUpdate,     *)
(* records stored again under their ids; SpecRecall, recall over records   *)
(* of one kind, up to more events than the default limit; SpecLessons,     *)
(* more lessons than a session returns; SpecSnippet, searches over long    *)
(* contents; SpecHandle, the calls that open and close the store handle.   *)
(***************************************************************************)
EXTENDS Integers, Sequences, FiniteSets, TLC

VARIABLES agents, events, entities, lessons, principles, summaries, state,
          fts, now, last, ops, ticks, procs, conn

vars == <<agents, events, entities, lessons, principles, summaries, state,
          fts, now, last, ops, ticks, procs, conn>>

dbvars == <<agents, events, entities, lessons, principles, summaries, state, fts>>

----------------------------------------------------------------------------
(* Bounds of the model *)

MaxOps == 2

MaxTicks == 1

MaxBulk == 22

MaxIdOps == 3

MaxLessons == 12

MaxCalls == 4

----------------------------------------------------------------------------
(* Program constants *)

HotAge == 259200

WarmAge == 2592000

HotLimit == 20

LessonLimit == 10

RecallLimit == 20

SearchLimit == 10

DaySeconds == 86400

(* The clock at start: 2026-02-01T23:59:59Z, one second before midnight. *)
StartTime == 2764799

----------------------------------------------------------------------------
(* Strings as sequences of ASCII codes *)

AgentA == <<65>>

AgentB == <<66>>

Agents == {AgentA, AgentB}

NoId == <<>>

NullRef == <<>>

IsUpper(c) == c >= 65 /\ c <= 90

IsDigit(c) == c >= 48 /\ c <= 57

IsAlnum(c) == IsDigit(c) \/ IsUpper(c) \/ (c >= 97 /\ c <= 122)

toLowerCase(c) == IF IsUpper(c) THEN c + 32 ELSE c

LowerStr(s) == [i \in 1..Len(s) |-> toLowerCase(s[i])]

(* s1 < s2 in byte order (SQLite BINARY collation, JavaScript string order) *)
RECURSIVE StrLessFrom(_, _, _)
StrLessFrom(s1, s2, k) ==
  IF k > Len(s2) THEN FALSE
  ELSE IF k > Len(s1) THEN TRUE
  ELSE IF s1[k] # s2[k] THEN s1[k] < s2[k]
  ELSE StrLessFrom(s1, s2, k + 1)

StrLess(s1, s2) == StrLessFrom(s1, s2, 1)

StartsWith(s, p) == Len(s) >= Len(p) /\ SubSeq(s, 1, Len(p)) = p

(* FTS5 unicode61 tokenizer: maximal runs of alphanumerics, case-folded *)
Tokens(s) ==
  LET starts == {i \in 1..Len(s) :
                   IsAlnum(s[i]) /\ (i = 1 \/ ~IsAlnum(s[i - 1]))}
      endOf(i) == CHOOSE j \in i..Len(s) :
                    /\ \A k \in i..j : IsAlnum(s[k])
                    /\ (j = Len(s) \/ ~IsAlnum(s[j + 1]))
  IN {LowerStr(SubSeq(s, i, endOf(i))) : i \in starts}

----------------------------------------------------------------------------
(* Payload access.  A payload is a function from the keys it carries. *)

Has(d, k) == k \in DOMAIN d

(* JavaScript truthiness of a string field: present and not empty *)
Truthy(d, k) == Has(d, k) /\ d[k] # <<>>

----------------------------------------------------------------------------
(* The database: one record of tables.  A table maps a primary key to a row. *)

DB == [agents |-> agents, events |-> events, entities |-> entities,
       lessons |-> lessons, principles |-> principles,
       summaries |-> summaries, state |-> state, fts |-> fts]

EmptyTable == <<>>

Put(table, key, row) ==
  [k \in (DOMAIN table) \cup {key} |-> IF k = key THEN row ELSE table[k]]

(* rowid of a fresh row: one more than the largest rowid in the table *)
NextRowid(table) == Cardinality(DOMAIN table) + 1

ensureAgent(db, agentId, t) ==
  IF agentId \in DOMAIN db.agents THEN db
  ELSE [db EXCEPT !.agents = Put(db.agents, agentId, [created_at |-> t])]

(* mutation: an event exactly 72 hours old is demoted *)
TierOfInclusive(timestamp, t) ==
  IF timestamp < t - WarmAge THEN "cold"
  ELSE IF timestamp <= t - HotAge THEN "warm"
  ELSE "hot"

TierOf(timestamp, t) ==
  IF timestamp < t - WarmAge THEN "cold"
  ELSE IF timestamp < t - HotAge THEN "warm"
  ELSE "hot"

updateTiers(db, t) ==
  [db EXCEPT !.events =
     [id \in DOMAIN db.events |->
        [db.events[id] EXCEPT !.tier = TierOf(db.events[id].timestamp, t)]]]

----------------------------------------------------------------------------
(* The FTS5 index of a kind is the set of <<rowid, term>> entries.  An insert
   adds the terms of the values it is given for the rowid; the 'delete'
   command retracts the terms of the values it is given for the rowid. *)

DocTerms(texts) == UNION {Tokens(texts[i]) : i \in 1..Len(texts)}

DocEntries(rowid, texts) == {<<rowid, w>> : w \in DocTerms(texts)}

ftsInsert(db, kind, rowid, texts) ==
  [db EXCEPT !.fts[kind] = @ \cup DocEntries(rowid, texts)]

ftsDelete(db, kind, rowid, texts) ==
  [db EXCEPT !.fts[kind] = @ \ DocEntries(rowid, texts)]

(* the values bound to an FTS insert: a missing field binds NULL, no terms *)
Bound(d, k) == IF Has(d, k) THEN d[k] ELSE <<>>

----------------------------------------------------------------------------
(* generateId *)

Pad2(n) == <<48 + (n \div 10), 48 + (n % 10)>>

(* new Date().toISOString().split('T')[0], for the first months of 2026 *)
DateStr(t) ==
  LET day == t \div DaySeconds IN
  IF day < 31 THEN <<50,48,50,54,45,48,49,45>> \o Pad2(day + 1)
  ELSE IF day < 59 THEN <<50,48,50,54,45,48,50,45>> \o Pad2(day - 30)
  ELSE <<50,48,50,54,45,48,51,45>> \o Pad2(day - 58)

RECURSIVE ToDigits(_)
ToDigits(n) == IF n < 10 THEN <<48 + n>> ELSE ToDigits(n \div 10) \o <<48 + (n % 10)>>

NaN == -1

NaNStr == <<78, 97, 78>>

(* String(seq) *)
NumStr(n) == IF n = NaN THEN NaNStr ELSE ToDigits(n)

RECURSIVE padStart(_, _, _)
padStart(s, width, c) == IF Len(s) >= width THEN s ELSE padStart(<<c>> \o s, width, c)

(* the part after the last '-' (parts[parts.length - 1] of split('-')) *)
RECURSIVE LastPart(_)
LastPart(s) ==
  IF s = <<>> THEN <<>>
  ELSE IF s[Len(s)] = 45 THEN <<>>
  ELSE LastPart(SubSeq(s, 1, Len(s) - 1)) \o <<s[Len(s)]>>

RECURSIVE DigitsValue(_, _, _)
DigitsValue(s, i, acc) ==
  IF i > Len(s) \/ ~IsDigit(s[i]) THEN acc
  ELSE DigitsValue(s, i + 1, acc * 10 + (s[i] - 48))

RECURSIVE SkipSpace(_, _)
SkipSpace(s, i) ==
  IF i <= Len(s) /\ s[i] \in {32, 9, 10, 13} THEN SkipSpace(s, i + 1) ELSE i

(* parseInt without radix on a decimal string: leading white space and a
   '+' are skipped, the leading digits are read, NaN when there are none *)
parseInt(s) ==
  LET i == SkipSpace(s, 1)
      j == IF i <= Len(s) /\ s[i] = 43 THEN i + 1 ELSE i
  IN IF j <= Len(s) /\ IsDigit(s[j]) THEN DigitsValue(s, j, 0) ELSE NaN

(* ORDER BY id DESC LIMIT 1: the greatest id of a non-empty set *)
RECURSIVE MaxStr(_)
MaxStr(S) ==
  LET x == CHOOSE y \in S : TRUE
  IN IF S = {x} THEN x
     ELSE LET m == MaxStr(S \ {x}) IN IF StrLess(m, x) THEN x ELSE m

generateId(table, t) ==
  LET date == DateStr(t)
      like == {id \in DOMAIN table : StartsWith(id, date \o <<45>>)}
      seq  == IF like = {} THEN 1
              ELSE LET n == parseInt(LastPart(MaxStr(like)))
                   IN IF n = NaN THEN NaN ELSE n + 1
  IN date \o <<45>> \o padStart(NumStr(seq), 3, 48)

----------------------------------------------------------------------------
(* store.js.  Each operator returns the database after the statements that
   ran, ok = FALSE when a statement threw, and the id the call worked on. *)

(* JSON texts.  A payload's metadata is an object, a sequence of
   <<key, value>> members with a one-digit number as value; source_lessons
   is an array of strings.  Keys and strings need no escapes. *)
EmptyObjectText == <<123, 125>>

EmptyArrayText == <<91, 93>>

Quote(str) == <<34>> \o str \o <<34>>

RECURSIVE JoinComma(_)
JoinComma(parts) ==
  IF parts = <<>> THEN <<>>
  ELSE IF Len(parts) = 1 THEN parts[1]
  ELSE parts[1] \o <<44>> \o JoinComma(Tail(parts))

ObjectText(o) ==
  <<123>> \o JoinComma([i \in 1..Len(o) |-> Quote(o[i][1]) \o <<58, 48 + o[i][2]>>])
          \o <<125>>

ArrayText(a) == <<91>> \o JoinComma([i \in 1..Len(a) |-> Quote(a[i])]) \o <<93>>

(* JSON.stringify(data.k || dflt) *)
Stringify(d, k, dflt) ==
  IF ~Has(d, k) THEN dflt
  ELSE IF dflt = EmptyArrayText THEN ArrayText(d[k]) ELSE ObjectText(d[k])

(* the parts of a text between commas *)
RECURSIVE SplitComma(_, _, _)
SplitComma(text, i, cur) ==
  IF i > Len(text) THEN <<cur>>
  ELSE IF text[i] = 44 THEN <<cur>> \o SplitComma(text, i + 1, <<>>)
  ELSE SplitComma(text, i + 1, Append(cur, text[i]))

Unquote(str) == SubSeq(str, 2, Len(str) - 1)

(* JSON.parse of the text of an object / of an array of strings *)
ParseObject(text) ==
  IF text = EmptyObjectText THEN <<>>
  ELSE LET parts == SplitComma(SubSeq(text, 2, Len(text) - 1), 1, <<>>)
       IN [i \in 1..Len(parts) |->
             LET c == CHOOSE j \in 1..Len(parts[i]) : parts[i][j] = 58
             IN <<Unquote(SubSeq(parts[i], 1, c - 1)), parts[i][c + 1] - 48>>]

ParseArray(text) ==
  IF text = EmptyArrayText THEN <<>>
  ELSE LET parts == SplitComma(SubSeq(text, 2, Len(text) - 1), 1, <<>>)
       IN [i \in 1..Len(parts) |-> Unquote(parts[i])]

Undefined == <<117,110,100,101,102,105,110,101,100>>

(* template-literal interpolation of a payload field *)
Interp(d, k) == IF Has(d, k) THEN d[k] ELSE Undefined

AllPresent(d, keys) == \A k \in keys : Has(d, k)

(* mutation: the update of an event sets its tier to hot *)
storeEventUpdateResetsTier(db0, agentId, data, t) ==
  LET db == ensureAgent(db0, agentId, t)
      id == IF Truthy(data, "id") THEN data.id ELSE generateId(db.events, t)
      timestamp == IF Has(data, "timestamp") THEN data.timestamp ELSE t
  IN IF id \in DOMAIN db.events
     THEN LET existing == db.events[id]
              d1 == ftsDelete(db, "events", existing.rowid,
                              <<existing.title, existing.content>>)
          IN IF ~AllPresent(data, {"type", "title", "content"})
             THEN [db |-> d1, ok |-> FALSE, id |-> id]
             ELSE LET d2 == [d1 EXCEPT !.events[id] =
                               [@ EXCEPT !.type = data.type,
                                         !.timestamp = timestamp,
                                         !.title = data.title,
                                         !.content = data.content,
                                         !.metadata = Stringify(data, "metadata", EmptyObjectText),
                                         !.tier = "hot"]]
                  IN [db |-> ftsInsert(d2, "events", existing.rowid,
                                       <<data.title, data.content>>),
                      ok |-> TRUE, id |-> id]
     ELSE IF ~AllPresent(data, {"type", "title", "content"})
          THEN [db |-> db, ok |-> FALSE, id |-> id]
          ELSE LET rowid == NextRowid(db.events)
                   d1 == [db EXCEPT !.events = Put(@, id,
                            [rowid |-> rowid, agent_id |-> agentId,
                             type |-> data.type, timestamp |-> timestamp,
                             title |-> data.title, content |-> data.content,
                             metadata |-> Stringify(data, "metadata", EmptyObjectText),
                             tier |-> "hot"])]
               IN [db |-> ftsInsert(d1, "events", rowid,
                                    <<data.title, data.content>>),
                   ok |-> TRUE, id |-> id]

(* mutation: a new event takes the tier its payload carries *)
storeEventPayloadTier(db0, agentId, data, t) ==
  LET db == ensureAgent(db0, agentId, t)
      id == IF Truthy(data, "id") THEN data.id ELSE generateId(db.events, t)
      timestamp == IF Has(data, "timestamp") THEN data.timestamp ELSE t
  IN IF id \in DOMAIN db.events
     THEN LET existing == db.events[id]
              d1 == ftsDelete(db, "events", existing.rowid,
                              <<existing.title, existing.content>>)
          IN IF ~AllPresent(data, {"type", "title", "content"})
             THEN [db |-> d1, ok |-> FALSE, id |-> id]
             ELSE LET d2 == [d1 EXCEPT !.events[id] =
                               [@ EXCEPT !.type = data.type,
                                         !.timestamp = timestamp,
                                         !.title = data.title,
                                         !.content = data.content,
                                         !.metadata = Stringify(data, "metadata", EmptyObjectText)]]
                  IN [db |-> ftsInsert(d2, "events", existing.rowid,
                                       <<data.title, data.content>>),
                      ok |-> TRUE, id |-> id]
     ELSE IF ~AllPresent(data, {"type", "title", "content"})
          THEN [db |-> db, ok |-> FALSE, id |-> id]
          ELSE LET rowid == NextRowid(db.events)
                   d1 == [db EXCEPT !.events = Put(@, id,
                            [rowid |-> rowid, agent_id |-> agentId,
                             type |-> data.type, timestamp |-> timestamp,
                             title |-> data.title, content |-> data.content,
                             metadata |-> Stringify(data, "metadata", EmptyObjectText),
                             tier |-> IF Has(data, "tier") THEN data.tier ELSE "hot"])]
               IN [db |-> ftsInsert(d1, "events", rowid,
                                    <<data.title, data.content>>),
                   ok |-> TRUE, id |-> id]

storeEvent(db0, agentId, data, t) ==
  LET db == ensureAgent(db0, agentId, t)
      id == IF Truthy(data, "id") THEN data.id ELSE generateId(db.events, t)
      timestamp == IF Has(data, "timestamp") THEN data.timestamp ELSE t
  IN IF id \in DOMAIN db.events
     THEN LET existing == db.events[id]
              d1 == ftsDelete(db, "events", existing.rowid,
                              <<existing.title, existing.content>>)
          IN IF ~AllPresent(data, {"type", "title", "content"})
             THEN [db |-> d1, ok |-> FALSE, id |-> id]
             ELSE LET d2 == [d1 EXCEPT !.events[id] =
                               [@ EXCEPT !.type = data.type,
                                         !.timestamp = timestamp,
                                         !.title = data.title,
                                         !.content = data.content,
                                         !.metadata = Stringify(data, "metadata", EmptyObjectText)]]
                  IN [db |-> ftsInsert(d2, "events", existing.rowid,
                                       <<data.title, data.content>>),
                      ok |-> TRUE, id |-> id]
     ELSE IF ~AllPresent(data, {"type", "title", "content"})
          THEN [db |-> db, ok |-> FALSE, id |-> id]
          ELSE LET rowid == NextRowid(db.events)
                   d1 == [db EXCEPT !.events = Put(@, id,
                            [rowid |-> rowid, agent_id |-> agentId,
                             type |-> data.type, timestamp |-> timestamp,
                             title |-> data.title, content |-> data.content,
                             metadata |-> Stringify(data, "metadata", EmptyObjectText),
                             tier |-> "hot"])]
               IN [db |-> ftsInsert(d1, "events", rowid,
                                    <<data.title, data.content>>),
                   ok |-> TRUE, id |-> id]

storeEntity(db0, agentId, data, t) ==
  LET db == ensureAgent(db0, agentId, t)
      id == IF Truthy(data, "id") THEN data.id
            ELSE agentId \o <<47>> \o Interp(data, "type") \o <<115, 47>>
                         \o Interp(data, "name")
  IN IF id \in DOMAIN db.entities
     THEN LET existing == db.entities[id]
              d1 == ftsDelete(db, "entities", existing.rowid,
                              <<existing.name, existing.content>>)
          IN IF ~Has(data, "content")
             THEN [db |-> d1, ok |-> FALSE, id |-> id]
             ELSE LET d2 == [d1 EXCEPT !.entities[id] =
                               [@ EXCEPT !.content = data.content,
                                         !.updated_at = t,
                                         !.metadata = Stringify(data, "metadata", EmptyObjectText)]]
                  IN [db |-> ftsInsert(d2, "entities", existing.rowid,
                                       <<Bound(data, "name"), data.content>>),
                      ok |-> TRUE, id |-> id]
     ELSE IF ~AllPresent(data, {"type", "name", "content"})
          THEN [db |-> db, ok |-> FALSE, id |-> id]
          ELSE LET rowid == NextRowid(db.entities)
                   d1 == [db EXCEPT !.entities = Put(@, id,
                            [rowid |-> rowid, agent_id |-> agentId,
                             type |-> data.type, name |-> data.name,
                             content |-> data.content, updated_at |-> t,
                             metadata |-> Stringify(data, "metadata", EmptyObjectText)])]
               IN [db |-> ftsInsert(d1, "entities", rowid,
                                    <<data.name, data.content>>),
                   ok |-> TRUE, id |-> id]

(* data.x || null for an optional reference *)
OrNull(d, k) == IF Truthy(d, k) THEN d[k] ELSE NullRef

(* mutation: the update of a lesson keeps the references the payload omits *)
storeLessonKeepsRefs(db0, agentId, data, t) ==
  LET db == ensureAgent(db0, agentId, t)
      id == IF Truthy(data, "id") THEN data.id ELSE generateId(db.lessons, t)
      timestamp == IF Has(data, "timestamp") THEN data.timestamp ELSE t
  IN IF id \in DOMAIN db.lessons
     THEN LET existing == db.lessons[id]
              d1 == ftsDelete(db, "lessons", existing.rowid,
                              <<existing.title, existing.content>>)
          IN IF ~AllPresent(data, {"type", "title", "content"})
             THEN [db |-> d1, ok |-> FALSE, id |-> id]
             ELSE LET d2 == [d1 EXCEPT !.lessons[id] =
                               [@ EXCEPT !.type = data.type,
                                         !.timestamp = timestamp,
                                         !.title = data.title,
                                         !.content = data.content,
                                         !.source_event_id =
                                            IF Truthy(data, "source_event_id")
                                            THEN data.source_event_id ELSE @,
                                         !.consolidated_to =
                                            IF Truthy(data, "consolidated_to")
                                            THEN data.consolidated_to ELSE @,
                                         !.metadata = Stringify(data, "metadata", EmptyObjectText)]]
                  IN [db |-> ftsInsert(d2, "lessons", existing.rowid,
                                       <<data.title, data.content>>),
                      ok |-> TRUE, id |-> id]
     ELSE IF ~AllPresent(data, {"type", "title", "content"})
          THEN [db |-> db, ok |-> FALSE, id |-> id]
          ELSE LET rowid == NextRowid(db.lessons)
                   d1 == [db EXCEPT !.lessons = Put(@, id,
                            [rowid |-> rowid, agent_id |-> agentId,
                             type |-> data.type, timestamp |-> timestamp,
                             title |-> data.title, content |-> data.content,
                             source_event_id |-> OrNull(data, "source_event_id"),
                             consolidated_to |-> OrNull(data, "consolidated_to"),
                             metadata |-> Stringify(data, "metadata", EmptyObjectText)])]
               IN [db |-> ftsInsert(d1, "lessons", rowid,
                                    <<data.title, data.content>>),
                   ok |-> TRUE, id |-> id]

storeLesson(db0, agentId, data, t) ==
  LET db == ensureAgent(db0, agentId, t)
      id == IF Truthy(data, "id") THEN data.id ELSE generateId(db.lessons, t)
      timestamp == IF Has(data, "timestamp") THEN data.timestamp ELSE t
  IN IF id \in DOMAIN db.lessons
     THEN LET existing == db.lessons[id]
              d1 == ftsDelete(db, "lessons", existing.rowid,
                              <<existing.title, existing.content>>)
          IN IF ~AllPresent(data, {"type", "title", "content"})
             THEN [db |-> d1, ok |-> FALSE, id |-> id]
             ELSE LET d2 == [d1 EXCEPT !.lessons[id] =
                               [@ EXCEPT !.type = data.type,
                                         !.timestamp = timestamp,
                                         !.title = data.title,
                                         !.content = data.content,
                                         !.source_event_id = OrNull(data, "source_event_id"),
                                         !.consolidated_to = OrNull(data, "consolidated_to"),
                                         !.metadata = Stringify(data, "metadata", EmptyObjectText)]]
                  IN [db |-> ftsInsert(d2, "lessons", existing.rowid,
                                       <<data.title, data.content>>),
                      ok |-> TRUE, id |-> id]
     ELSE IF ~AllPresent(data, {"type", "title", "content"})
          THEN [db |-> db, ok |-> FALSE, id |-> id]
          ELSE LET rowid == NextRowid(db.lessons)
                   d1 == [db EXCEPT !.lessons = Put(@, id,
                            [rowid |-> rowid, agent_id |-> agentId,
                             type |-> data.type, timestamp |-> timestamp,
                             title |-> data.title, content |-> data.content,
                             source_event_id |-> OrNull(data, "source_event_id"),
                             consolidated_to |-> OrNull(data, "consolidated_to"),
                             metadata |-> Stringify(data, "metadata", EmptyObjectText)])]
               IN [db |-> ftsInsert(d1, "lessons", rowid,
                                    <<data.title, data.content>>),
                   ok |-> TRUE, id |-> id]

(* mutation: the update of a principle writes the payload's name too *)
storePrincipleRenames(db0, agentId, data, t) ==
  LET db == ensureAgent(db0, agentId, t)
      id == IF Truthy(data, "id") THEN data.id
            ELSE agentId \o <<47>> \o Interp(data, "name")
  IN IF id \in DOMAIN db.principles
     THEN IF ~AllPresent(data, {"name", "content"})
          THEN [db |-> db, ok |-> FALSE, id |-> id]
          ELSE [db |-> [db EXCEPT !.principles[id] =
                          [@ EXCEPT !.name = data.name,
                                    !.content = data.content,
                                    !.source_lessons = Stringify(data, "source_lessons", EmptyArrayText),
                                    !.updated_at = t,
                                    !.metadata = Stringify(data, "metadata", EmptyObjectText)]],
                ok |-> TRUE, id |-> id]
     ELSE IF ~AllPresent(data, {"name", "content"})
          THEN [db |-> db, ok |-> FALSE, id |-> id]
          ELSE [db |-> [db EXCEPT !.principles = Put(@, id,
                          [rowid |-> NextRowid(db.principles),
                           agent_id |-> agentId, name |-> data.name,
                           content |-> data.content,
                           source_lessons |-> Stringify(data, "source_lessons", EmptyArrayText),
                           created_at |-> t, updated_at |-> t,
                           metadata |-> Stringify(data, "metadata", EmptyObjectText)])],
                ok |-> TRUE, id |-> id]

storePrinciple(db0, agentId, data, t) ==
  LET db == ensureAgent(db0, agentId, t)
      id == IF Truthy(data, "id") THEN data.id
            ELSE agentId \o <<47>> \o Interp(data, "name")
  IN IF id \in DOMAIN db.principles
     THEN IF ~Has(data, "content")
          THEN [db |-> db, ok |-> FALSE, id |-> id]
          ELSE [db |-> [db EXCEPT !.principles[id] =
                          [@ EXCEPT !.content = data.content,
                                    !.source_lessons = Stringify(data, "source_lessons", EmptyArrayText),
                                    !.updated_at = t,
                                    !.metadata = Stringify(data, "metadata", EmptyObjectText)]],
                ok |-> TRUE, id |-> id]
     ELSE IF ~AllPresent(data, {"name", "content"})
          THEN [db |-> db, ok |-> FALSE, id |-> id]
          ELSE [db |-> [db EXCEPT !.principles = Put(@, id,
                          [rowid |-> NextRowid(db.principles),
                           agent_id |-> agentId, name |-> data.name,
                           content |-> data.content,
                           source_lessons |-> Stringify(data, "source_lessons", EmptyArrayText),
                           created_at |-> t, updated_at |-> t,
                           metadata |-> Stringify(data, "metadata", EmptyObjectText)])],
                ok |-> TRUE, id |-> id]

(* mutation: INSERT OR REPLACE, the row under an existing id is rewritten whole *)
storeSummaryReplace(db0, agentId, data, t) ==
  LET db == ensureAgent(db0, agentId, t)
      id == IF Truthy(data, "id") THEN data.id
            ELSE agentId \o <<47>> \o Interp(data, "type") \o <<115, 47>>
                         \o Interp(data, "period")
      count == IF Has(data, "event_count") THEN data.event_count ELSE 0
  IN IF ~AllPresent(data, {"type", "period", "content"})
     THEN [db |-> db, ok |-> FALSE, id |-> id]
     ELSE [db |-> [db EXCEPT !.summaries = Put(@, id,
                     [rowid |-> IF id \in DOMAIN db.summaries
                                THEN db.summaries[id].rowid
                                ELSE NextRowid(db.summaries),
                      agent_id |-> agentId, type |-> data.type,
                      period |-> data.period, content |-> data.content,
                      event_count |-> count, created_at |-> t])],
           ok |-> TRUE, id |-> id]

storeSummary(db0, agentId, data, t) ==
  LET db == ensureAgent(db0, agentId, t)
      id == IF Truthy(data, "id") THEN data.id
            ELSE agentId \o <<47>> \o Interp(data, "type") \o <<115, 47>>
                         \o Interp(data, "period")
      count == IF Has(data, "event_count") THEN data.event_count ELSE 0
  IN IF ~AllPresent(data, {"type", "period", "content"})
     THEN [db |-> db, ok |-> FALSE, id |-> id]
     ELSE IF id \in DOMAIN db.summaries
     THEN [db |-> [db EXCEPT !.summaries[id] =
                     [@ EXCEPT !.content = data.content, !.event_count = count]],
           ok |-> TRUE, id |-> id]
     ELSE [db |-> [db EXCEPT !.summaries = Put(@, id,
                     [rowid |-> NextRowid(db.summaries),
                      agent_id |-> agentId, type |-> data.type,
                      period |-> data.period, content |-> data.content,
                      event_count |-> count, created_at |-> t])],
           ok |-> TRUE, id |-> id]

----------------------------------------------------------------------------
(* state.js *)

NullTime == -1

(* mutation: get_state that does not create the agent *)
getStateNoEnsure(db0, agentId, t) ==
  [db |-> db0,
   result |-> IF agentId \in DOMAIN db0.state
              THEN [content |-> db0.state[agentId].content,
                    updated_at |-> db0.state[agentId].updated_at]
              ELSE [content |-> <<>>, updated_at |-> NullTime]]

getState(db0, agentId, t) ==
  LET db == ensureAgent(db0, agentId, t)
  IN [db |-> db,
      result |-> IF agentId \in DOMAIN db.state
                 THEN [content |-> db.state[agentId].content,
                       updated_at |-> db.state[agentId].updated_at]
                 ELSE [content |-> <<>>, updated_at |-> NullTime]]

(* mutation: set_state that does not create the agent *)
setStateNoEnsure(db0, agentId, content, t) ==
  [db |-> [db0 EXCEPT !.state = Put(@, agentId,
                                     [content |-> content, updated_at |-> t])],
   result |-> [updated_at |-> t]]

(* mutation: set_state that keeps the row an agent already has *)
setStateInsertOnly(db0, agentId, content, t) ==
  LET db == ensureAgent(db0, agentId, t)
  IN [db |-> IF agentId \in DOMAIN db.state THEN db
             ELSE [db EXCEPT !.state = Put(@, agentId,
                                           [content |-> content, updated_at |-> t])],
      result |-> [updated_at |-> t]]

setState(db0, agentId, content, t) ==
  LET db == ensureAgent(db0, agentId, t)
  IN [db |-> [db EXCEPT !.state = Put(@, agentId,
                                      [content |-> content, updated_at |-> t])],
      result |-> [updated_at |-> t]]

----------------------------------------------------------------------------
(* SELECT ... ORDER BY key DESC LIMIT n.  Rows with equal keys come in rowid
   order, the order of the table scan. *)

Take(seq, n) == IF Len(seq) <= n THEN seq ELSE SubSeq(seq, 1, n)

RECURSIVE OrderDesc(_, _, _)
OrderDesc(table, ids, key) ==
  IF ids = {} THEN <<>>
  ELSE LET first == CHOOSE i \in ids : \A j \in ids :
                       \/ j = i
                       \/ table[i][key] > table[j][key]
                       \/ (table[i][key] = table[j][key] /\ table[i].rowid < table[j].rowid)
       IN <<first>> \o OrderDesc(table, ids \ {first}, key)

(* the response record of a row: SELECT * mapped to the fields returned *)
EventOut(db, id) ==
  LET r == db.events[id]
  IN [id |-> id, type |-> r.type, timestamp |-> r.timestamp, title |-> r.title,
      content |-> r.content, metadata |-> ParseObject(r.metadata), tier |-> r.tier]

EntityOut(db, id) ==
  LET r == db.entities[id]
  IN [id |-> id, type |-> r.type, name |-> r.name, content |-> r.content,
      updated_at |-> r.updated_at, metadata |-> ParseObject(r.metadata)]

LessonOut(db, id) ==
  LET r == db.lessons[id]
  IN [id |-> id, type |-> r.type, timestamp |-> r.timestamp, title |-> r.title,
      content |-> r.content, source_event_id |-> r.source_event_id,
      consolidated_to |-> r.consolidated_to, metadata |-> ParseObject(r.metadata)]

PrincipleOut(db, id) ==
  LET r == db.principles[id]
  IN [id |-> id, name |-> r.name, content |-> r.content,
      source_lessons |-> ParseArray(r.source_lessons), created_at |-> r.created_at,
      updated_at |-> r.updated_at, metadata |-> ParseObject(r.metadata)]

SummaryOut(db, id) ==
  LET r == db.summaries[id]
  IN [id |-> id, type |-> r.type, period |-> r.period, content |-> r.content,
      event_count |-> r.event_count, created_at |-> r.created_at]

----------------------------------------------------------------------------
(* recall.js.  A filter is applied when its key is present and truthy. *)

(* mutation: the events of every agent *)
recallEventsUnscoped(db, agentId, filters, limit) ==
  LET rows == Take(OrderDesc(db.events, DOMAIN db.events, "timestamp"), limit)
  IN [i \in 1..Len(rows) |-> EventOut(db, rows[i])]

recallEvents(db, agentId, filters, limit) ==
  LET ids == {id \in DOMAIN db.events :
                /\ db.events[id].agent_id = agentId
                /\ (Has(filters, "tier") /\ filters.tier # ""
                      => db.events[id].tier = filters.tier)
                /\ (Has(filters, "event_type") /\ filters.event_type # ""
                      => db.events[id].type = filters.event_type)
                /\ (Has(filters, "since") => db.events[id].timestamp >= filters.since)
                /\ (Has(filters, "until") => db.events[id].timestamp <= filters.until)}
      rows == Take(OrderDesc(db.events, ids, "timestamp"), limit)
  IN [i \in 1..Len(rows) |-> EventOut(db, rows[i])]

recallEntities(db, agentId, filters, limit) ==
  LET ids == {id \in DOMAIN db.entities :
                /\ db.entities[id].agent_id = agentId
                /\ (Has(filters, "entity_type") /\ filters.entity_type # <<>>
                      => db.entities[id].type = filters.entity_type)}
      rows == Take(OrderDesc(db.entities, ids, "updated_at"), limit)
  IN [i \in 1..Len(rows) |-> EntityOut(db, rows[i])]

(* mutation: the lessons recalled without the since filter *)
recallLessonsNoSince(db, agentId, filters, limit) ==
  LET ids == {id \in DOMAIN db.lessons :
                /\ db.lessons[id].agent_id = agentId
                /\ (Has(filters, "lesson_type") /\ filters.lesson_type # ""
                      => db.lessons[id].type = filters.lesson_type)}
      rows == Take(OrderDesc(db.lessons, ids, "timestamp"), limit)
  IN [i \in 1..Len(rows) |-> LessonOut(db, rows[i])]

recallLessons(db, agentId, filters, limit) ==
  LET ids == {id \in DOMAIN db.lessons :
                /\ db.lessons[id].agent_id = agentId
                /\ (Has(filters, "lesson_type") /\ filters.lesson_type # ""
                      => db.lessons[id].type = filters.lesson_type)
                /\ (Has(filters, "since") => db.lessons[id].timestamp >= filters.since)}
      rows == Take(OrderDesc(db.lessons, ids, "timestamp"), limit)
  IN [i \in 1..Len(rows) |-> LessonOut(db, rows[i])]

recallPrinciples(db, agentId, filters, limit) ==
  LET ids == {id \in DOMAIN db.principles : db.principles[id].agent_id = agentId}
      rows == Take(OrderDesc(db.principles, ids, "updated_at"), limit)
  IN [i \in 1..Len(rows) |-> PrincipleOut(db, rows[i])]

recallSummaries(db, agentId, filters, limit) ==
  LET ids == {id \in DOMAIN db.summaries :
                /\ db.summaries[id].agent_id = agentId
                /\ (Has(filters, "summary_type") /\ filters.summary_type # <<>>
                      => db.summaries[id].type = filters.summary_type)
                /\ (Has(filters, "since") => db.summaries[id].created_at >= filters.since)}
      rows == Take(OrderDesc(db.summaries, ids, "created_at"), limit)
  IN [i \in 1..Len(rows) |-> SummaryOut(db, rows[i])]

RecallTypes == {"events", "entities", "lessons", "principles", "summaries"}

(* mutation: a type that is none of the five is answered with the events *)
recallFallback(db, agentId, type, filters, limit) ==
  IF type = "entities" THEN [ok |-> TRUE, rows |-> recallEntities(db, agentId, filters, limit)]
  ELSE IF type = "lessons" THEN [ok |-> TRUE, rows |-> recallLessons(db, agentId, filters, limit)]
  ELSE IF type = "principles" THEN [ok |-> TRUE, rows |-> recallPrinciples(db, agentId, filters, limit)]
  ELSE IF type = "summaries" THEN [ok |-> TRUE, rows |-> recallSummaries(db, agentId, filters, limit)]
  ELSE [ok |-> TRUE, rows |-> recallEvents(db, agentId, filters, limit)]

(* ok = FALSE: throw new Error(`Unknown type: ${type}`) *)
recall(db, agentId, type, filters, limit) ==
  IF type = "events" THEN [ok |-> TRUE, rows |-> recallEvents(db, agentId, filters, limit)]
  ELSE IF type = "entities" THEN [ok |-> TRUE, rows |-> recallEntities(db, agentId, filters, limit)]
  ELSE IF type = "lessons" THEN [ok |-> TRUE, rows |-> recallLessons(db, agentId, filters, limit)]
  ELSE IF type = "principles" THEN [ok |-> TRUE, rows |-> recallPrinciples(db, agentId, filters, limit)]
  ELSE IF type = "summaries" THEN [ok |-> TRUE, rows |-> recallSummaries(db, agentId, filters, limit)]
  ELSE [ok |-> FALSE, rows |-> <<>>]

----------------------------------------------------------------------------
(* session.js *)

(* mutation: the hot events of the session in the order of the table *)
sessionHotEventsUnordered(db, agentId) ==
  Take(OrderDesc(db.events,
                 {id \in DOMAIN db.events :
                    db.events[id].agent_id = agentId /\ db.events[id].tier = "hot"},
                 "rowid"),
       HotLimit)

(* mutation: the hot events without LIMIT 20 *)
sessionHotEventsNoLimit(db, agentId) ==
  OrderDesc(db.events,
            {id \in DOMAIN db.events :
               db.events[id].agent_id = agentId /\ db.events[id].tier = "hot"},
            "timestamp")

(* SELECT ... FROM events WHERE agent_id = ? AND tier = 'hot'
   ORDER BY timestamp DESC LIMIT 20 *)
sessionHotEvents(db, agentId) ==
  Take(OrderDesc(db.events,
                 {id \in DOMAIN db.events :
                    db.events[id].agent_id = agentId /\ db.events[id].tier = "hot"},
                 "timestamp"),
       HotLimit)

(* mutation: the recent lessons without the consolidated_to IS NULL filter *)
getSessionAllLessons(db0, agentId, t) ==
  LET db == ensureAgent(db0, agentId, t)
      state_ == IF agentId \in DOMAIN db.state
                THEN [content |-> db.state[agentId].content,
                      updated_at |-> db.state[agentId].updated_at]
                ELSE [content |-> <<>>, updated_at |-> NullTime]
      hotRows == sessionHotEvents(db, agentId)
      prIds == {id \in DOMAIN db.principles : db.principles[id].agent_id = agentId}
      prRows == OrderDesc(db.principles, prIds, "updated_at")
      suIds == {id \in DOMAIN db.summaries : db.summaries[id].agent_id = agentId}
      suRows == Take(OrderDesc(db.summaries, suIds, "created_at"), 1)
      leIds == {id \in DOMAIN db.lessons : db.lessons[id].agent_id = agentId}
      leRows == Take(OrderDesc(db.lessons, leIds, "timestamp"), LessonLimit)
  IN [db |-> db,
      result |->
        [state |-> state_,
         hot_events |-> [i \in 1..Len(hotRows) |-> EventOut(db, hotRows[i])],
         principles |-> [i \in 1..Len(prRows) |-> PrincipleOut(db, prRows[i])],
         recent_summary |-> [i \in 1..Len(suRows) |-> SummaryOut(db, suRows[i])],
         recent_lessons |-> [i \in 1..Len(leRows) |-> LessonOut(db, leRows[i])],
         counts |-> [hot_events |-> Len(hotRows), principles |-> Len(prRows),
                     recent_lessons |-> Len(leRows)]]]

(* mutation: the default state of the session carries the time of the call *)
getSessionStampedDefault(db0, agentId, t) ==
  LET db == ensureAgent(db0, agentId, t)
      state_ == IF agentId \in DOMAIN db.state
                THEN [content |-> db.state[agentId].content,
                      updated_at |-> db.state[agentId].updated_at]
                ELSE [content |-> <<>>, updated_at |-> t]
      hotRows == sessionHotEvents(db, agentId)
      prIds == {id \in DOMAIN db.principles : db.principles[id].agent_id = agentId}
      prRows == OrderDesc(db.principles, prIds, "updated_at")
      suIds == {id \in DOMAIN db.summaries : db.summaries[id].agent_id = agentId}
      suRows == Take(OrderDesc(db.summaries, suIds, "created_at"), 1)
      leIds == {id \in DOMAIN db.lessons :
                  db.lessons[id].agent_id = agentId
                  /\ db.lessons[id].consolidated_to = NullRef}
      leRows == Take(OrderDesc(db.lessons, leIds, "timestamp"), LessonLimit)
  IN [db |-> db,
      result |->
        [state |-> state_,
         hot_events |-> [i \in 1..Len(hotRows) |-> EventOut(db, hotRows[i])],
         principles |-> [i \in 1..Len(prRows) |-> PrincipleOut(db, prRows[i])],
         recent_summary |-> [i \in 1..Len(suRows) |-> SummaryOut(db, suRows[i])],
         recent_lessons |-> [i \in 1..Len(leRows) |-> LessonOut(db, leRows[i])],
         counts |-> [hot_events |-> Len(hotRows), principles |-> Len(prRows),
                     recent_lessons |-> Len(leRows)]]]

getSession(db0, agentId, t) ==
  LET db == ensureAgent(db0, agentId, t)
      state_ == IF agentId \in DOMAIN db.state
                THEN [content |-> db.state[agentId].content,
                      updated_at |-> db.state[agentId].updated_at]
                ELSE [content |-> <<>>, updated_at |-> NullTime]
      hotRows == sessionHotEvents(db, agentId)
      prIds == {id \in DOMAIN db.principles : db.principles[id].agent_id = agentId}
      prRows == OrderDesc(db.principles, prIds, "updated_at")
      suIds == {id \in DOMAIN db.summaries : db.summaries[id].agent_id = agentId}
      suRows == Take(OrderDesc(db.summaries, suIds, "created_at"), 1)
      leIds == {id \in DOMAIN db.lessons :
                  db.lessons[id].agent_id = agentId
                  /\ db.lessons[id].consolidated_to = NullRef}
      leRows == Take(OrderDesc(db.lessons, leIds, "timestamp"), LessonLimit)
  IN [db |-> db,
      result |->
        [state |-> state_,
         hot_events |-> [i \in 1..Len(hotRows) |-> EventOut(db, hotRows[i])],
         principles |-> [i \in 1..Len(prRows) |-> PrincipleOut(db, prRows[i])],
         recent_summary |-> [i \in 1..Len(suRows) |-> SummaryOut(db, suRows[i])],
         recent_lessons |-> [i \in 1..Len(leRows) |-> LessonOut(db, leRows[i])],
         counts |-> [hot_events |-> Len(hotRows), principles |-> Len(prRows),
                     recent_lessons |-> Len(leRows)]]]

----------------------------------------------------------------------------
(* search.js *)

SnippetLength == 150

Ellipsis == <<46, 46, 46>>

IsSpace(c) == c \in {32, 9, 10, 13}

(* split(/\s+/): a run of white space separates two parts *)
RECURSIVE SplitWs(_, _, _)
SplitWs(s, i, cur) ==
  IF i > Len(s) THEN <<cur>>
  ELSE IF IsSpace(s[i])
       THEN IF i < Len(s) /\ IsSpace(s[i + 1]) THEN SplitWs(s, i + 1, cur)
            ELSE <<cur>> \o SplitWs(s, i + 1, <<>>)
       ELSE SplitWs(s, i + 1, Append(cur, s[i]))

(* String.prototype.indexOf, 0-based, -1 when absent *)
indexOf(text, term) ==
  LET hits == {i \in 0..(Len(text) - Len(term)) :
                 SubSeq(text, i + 1, i + Len(term)) = term}
  IN IF hits = {} THEN -1 ELSE CHOOSE i \in hits : \A j \in hits : i <= j

(* text.substring(from, to) with 0 <= from <= to *)
substring(text, from, to) ==
  SubSeq(text, from + 1, IF to > Len(text) THEN Len(text) ELSE to)

Min(a, b) == IF a < b THEN a ELSE b

Max(a, b) == IF a > b THEN a ELSE b

extractSnippet(text, queryText) ==
  LET terms == SplitWs(LowerStr(queryText), 1, <<>>)
      lowerText == LowerStr(text)
      found == {indexOf(lowerText, terms[k]) : k \in 1..Len(terms)} \ {-1}
  IN IF found = {} THEN substring(text, 0, SnippetLength) \o Ellipsis
     ELSE LET pos == CHOOSE i \in found : \A j \in found : i <= j
              start == Max(0, pos - (SnippetLength \div 2))
              end == Min(Len(text), pos + (SnippetLength \div 2))
              body == substring(text, start, end)
              pre == IF start > 0 THEN Ellipsis \o body ELSE body
          IN IF end < Len(text) THEN pre \o Ellipsis ELSE pre

(* rows of a table owned by the agent whose index entries hold every term
   of the query (FTS5 MATCH of bare terms is their conjunction) *)
matchIds(db, kind, agentId, queryText) ==
  {id \in DOMAIN db[kind] :
     /\ db[kind][id].agent_id = agentId
     /\ Tokens(queryText) # {}
     /\ \A w \in Tokens(queryText) : <<db[kind][id].rowid, w>> \in db.fts[kind]}

(* rank: FTS5 scores a hit with bm25, lower is better.  The model's score
   is a deterministic stand-in that prefers the shorter document. *)
rank(db, kind, rowid) ==
  0 - (1000 \div (1 + Cardinality({e \in db.fts[kind] : e[1] = rowid})))

RECURSIVE OrderByRank(_, _, _)
OrderByRank(db, kind, ids) ==
  IF ids = {} THEN <<>>
  ELSE LET t == db[kind]
           first == CHOOSE i \in ids : \A j \in ids :
                      \/ j = i
                      \/ rank(db, kind, t[i].rowid) < rank(db, kind, t[j].rowid)
                      \/ (rank(db, kind, t[i].rowid) = rank(db, kind, t[j].rowid)
                            /\ t[i].rowid < t[j].rowid)
       IN <<first>> \o OrderByRank(db, kind, ids \ {first})

searchKind(db, kind, agentId, queryText, limit) ==
  LET ids == Take(OrderByRank(db, kind, matchIds(db, kind, agentId, queryText)), limit)
      t == db[kind]
  IN [i \in 1..Len(ids) |->
        [type |-> IF kind = "events" THEN "event"
                  ELSE IF kind = "entities" THEN "entity" ELSE "lesson",
         id |-> ids[i],
         title |-> IF kind = "entities" THEN t[ids[i]].name ELSE t[ids[i]].title,
         snippet |-> extractSnippet(t[ids[i]].content, queryText),
         score |-> rank(db, kind, t[ids[i]].rowid),
         stamp |-> IF kind = "entities" THEN t[ids[i]].updated_at
                   ELSE t[ids[i]].timestamp]]

(* Array.prototype.sort by score, stable *)
RECURSIVE SortByScore(_)
SortByScore(hits) ==
  IF hits = <<>> THEN <<>>
  ELSE LET k == CHOOSE i \in 1..Len(hits) : \A j \in 1..Len(hits) :
                  \/ hits[i].score < hits[j].score
                  \/ (hits[i].score = hits[j].score /\ i <= j)
       IN <<hits[k]>> \o SortByScore(SubSeq(hits, 1, k - 1) \o SubSeq(hits, k + 1, Len(hits)))

SearchTypes == {"events", "entities", "lessons"}

(* mutation: the limit bounds each kind's hits but not the merged list *)
searchPerKindLimit(db, agentId, queryText, types, limit) ==
  LET part(kind) == IF kind \in types
                    THEN searchKind(db, kind, agentId, queryText, limit) ELSE <<>>
  IN SortByScore(part("events") \o part("entities") \o part("lessons"))

search(db, agentId, queryText, types, limit) ==
  LET part(kind) == IF kind \in types
                    THEN searchKind(db, kind, agentId, queryText, limit) ELSE <<>>
  IN Take(SortByScore(part("events") \o part("entities") \o part("lessons")), limit)

----------------------------------------------------------------------------
(* db.js: the handle of the store.  conn holds the module variables db and
   currentDbPath, process.env.AGENTMEM_DB_PATH (env, "" when unset), the
   handles that are open, the number of handles opened so far, the path each
   handle was opened with, the handles getDb has returned, and for each
   database its user_version and the number of times initializeSchema ran on
   it.  A handle is the number of its opening; an in-memory database belongs
   to its handle, a file database to its path. *)

SCHEMA_VERSION == 1

DEFAULT_DB_PATH == "~/.agentmem/memory.db"

MemoryPath == ":memory:"

NullHandle == 0

NullPath == "null"

ClosedConn ==
  [db |-> NullHandle, currentDbPath |-> NullPath, env |-> "", open |-> {},
   opened |-> 0, pathOf |-> <<>>, returned |-> <<>>, schemas |-> EmptyTable]

getDbPath(c) == IF c.env # "" THEN c.env ELSE DEFAULT_DB_PATH

(* the database a handle opened with a path is connected to *)
DatabaseOf(dbPath, handle) ==
  IF dbPath = MemoryPath THEN <<dbPath, handle>> ELSE <<dbPath, 0>>

resetDb(c, newPath) ==
  LET c1 == IF c.db # NullHandle
            THEN [c EXCEPT !.open = @ \ {c.db}, !.db = NullHandle,
                           !.currentDbPath = NullPath]
            ELSE c
  IN IF newPath # NullPath THEN [c1 EXCEPT !.env = newPath] ELSE c1

(* mutation: a change of the path drops the handle without closing it *)
getDbKeepsOldOpen(c) ==
  LET dbPath == getDbPath(c)
      c1 == IF c.db # NullHandle /\ c.currentDbPath # dbPath
            THEN [c EXCEPT !.db = NullHandle]
            ELSE c
  IN IF c1.db = NullHandle
     THEN LET handle == c1.opened + 1
              database == DatabaseOf(dbPath, handle)
              c2 == [c1 EXCEPT !.db = handle, !.open = @ \cup {handle},
                               !.opened = handle, !.currentDbPath = dbPath,
                               !.pathOf = Append(@, dbPath)]
              currentVersion == IF database \in DOMAIN c2.schemas
                                THEN c2.schemas[database].user_version ELSE 0
              inits == IF database \in DOMAIN c2.schemas
                       THEN c2.schemas[database].inits ELSE 0
              c3 == IF currentVersion < SCHEMA_VERSION
                    THEN [c2 EXCEPT !.schemas = Put(@, database,
                            [user_version |-> SCHEMA_VERSION, inits |-> inits + 1])]
                    ELSE c2
          IN [c3 EXCEPT !.returned = Append(@, handle)]
     ELSE [c1 EXCEPT !.returned = Append(@, c1.db)]

getDb(c) ==
  LET dbPath == getDbPath(c)
      c1 == IF c.db # NullHandle /\ c.currentDbPath # dbPath
            THEN [c EXCEPT !.open = @ \ {c.db}, !.db = NullHandle]
            ELSE c
  IN IF c1.db = NullHandle
     THEN LET handle == c1.opened + 1
              database == DatabaseOf(dbPath, handle)
              c2 == [c1 EXCEPT !.db = handle, !.open = @ \cup {handle},
                               !.opened = handle, !.currentDbPath = dbPath,
                               !.pathOf = Append(@, dbPath)]
              currentVersion == IF database \in DOMAIN c2.schemas
                                THEN c2.schemas[database].user_version ELSE 0
              inits == IF database \in DOMAIN c2.schemas
                       THEN c2.schemas[database].inits ELSE 0
              c3 == IF currentVersion < SCHEMA_VERSION
                    THEN [c2 EXCEPT !.schemas = Put(@, database,
                            [user_version |-> SCHEMA_VERSION, inits |-> inits + 1])]
                    ELSE c2
          IN [c3 EXCEPT !.returned = Append(@, handle)]
     ELSE [c1 EXCEPT !.returned = Append(@, c1.db)]

----------------------------------------------------------------------------
(* Inputs of the commands *)

(* the metadata key "k" *)
KeyK == <<107>>

(* "Old", "jwt old", "New", "JWT" *)
TitleOld == <<79, 108, 100>>

ContentOld == <<106, 119, 116, 32, 111, 108, 100>>

TitleNew == <<78, 101, 119>>

ContentNew == <<74, 87, 84>>

(* caller-supplied ids "e1", "x1", "l1", "z1" *)
EventId1 == <<101, 49>>

EntityId1 == <<120, 49>>

LessonId1 == <<108, 49>>

SummaryId1 == <<122, 49>>

(* entity names "Ann", "Bob"; entity type "p"; principle name "P";
   summary type "w", period "1" *)
NameAnn == <<65, 110, 110>>

NameBob == <<66, 111, 98>>

TypeP == <<112>>

NameP == <<80>>

TypeW == <<119>>

Period1 == <<49>>

WithId(d, id) == [k \in (DOMAIN d) \cup {"id"} |-> IF k = "id" THEN id ELSE d[k]]

EventOld == [type |-> "work", title |-> TitleOld, content |-> ContentOld]

EventNew == [type |-> "work", title |-> TitleNew, content |-> ContentNew,
             metadata |-> <<<<KeyK, 1>>>>]

EventNoTitle == [type |-> "work", content |-> ContentNew]

(* the metadata key "j" *)
KeyJ == <<106>>

(* an event whose payload carries a tier and a metadata object of two members *)
EventCold == [type |-> "work", title |-> TitleNew, content |-> ContentOld,
              tier |-> "cold", metadata |-> <<<<KeyK, 1>>, <<KeyJ, 2>>>>]

(* an event dated exactly age seconds before t *)
EventAged(t, age) == [type |-> "work", title |-> TitleOld, content |-> ContentOld,
                      timestamp |-> t - age]

EntityAnn == [type |-> TypeP, name |-> NameAnn, content |-> ContentOld]

EntityAnnNew == [type |-> TypeP, name |-> NameAnn, content |-> ContentNew]

EntityBob == [type |-> TypeP, name |-> NameBob, content |-> ContentNew]

EntityNoContent == [type |-> TypeP, name |-> NameAnn]

LessonOld == [type |-> "obs", title |-> TitleOld, content |-> ContentOld]

LessonNew == [type |-> "obs", title |-> TitleNew, content |-> ContentNew,
              consolidated_to |-> AgentA \o <<47>> \o NameP]

LessonNoTitle == [type |-> "obs", content |-> ContentNew]

PrincipleOld == [name |-> NameP, content |-> ContentOld]

PrincipleNew == [name |-> NameP, content |-> ContentNew, source_lessons |-> <<LessonId1>>]

SummaryOld == [type |-> TypeW, period |-> Period1, content |-> ContentOld,
               event_count |-> 3]

SummaryNew == [type |-> TypeW, period |-> Period1, content |-> ContentNew]

(* the store requests of the first agent: every kind, with and without an
   id, complete and incomplete payloads, dated and undated events *)
StoreInputsA(t) ==
  ({"event"} \X {EventOld, EventNew, EventNoTitle, EventAged(t, HotAge),
                 EventAged(t, WarmAge), WithId(EventOld, EventId1),
                 WithId(EventNew, EventId1), WithId(EventNoTitle, EventId1),
                 WithId(EventAged(t, WarmAge), EventId1)})
    \cup ({"entity"} \X {EntityAnn, EntityAnnNew, EntityBob,
                         WithId(EntityAnn, EntityId1), WithId(EntityBob, EntityId1),
                         WithId(EntityNoContent, EntityId1)})
    \cup ({"lesson"} \X {LessonOld, LessonNew, WithId(LessonOld, LessonId1),
                         WithId(LessonNew, LessonId1),
                         WithId(LessonNoTitle, LessonId1)})
    \cup ({"principle"} \X {PrincipleOld, PrincipleNew})
    \cup ({"summary"} \X {SummaryOld, WithId(SummaryOld, SummaryId1),
                          WithId(SummaryNew, SummaryId1)})

(* the store requests of the second agent: one without an id, and one of
   each kind under the ids the first agent uses *)
StoreInputsB(t) ==
  ({"event"} \X {EventNew, WithId(EventOld, EventId1)})
    \cup ({"entity"} \X {WithId(EntityBob, EntityId1)})
    \cup ({"lesson"} \X {WithId(LessonNew, LessonId1)})
    \cup ({"principle"} \X {PrincipleOld})
    \cup ({"summary"} \X {WithId(SummaryNew, SummaryId1)})

StoreInputs(agentId, t) ==
  IF agentId = AgentA THEN StoreInputsA(t) ELSE StoreInputsB(t)

(* requests the store command rejects before it calls a store function *)
Rejections == {"missing type", "missing json", "malformed json", "unknown type"}

StateContents(agentId) ==
  IF agentId = AgentA THEN {ContentOld, ContentNew} ELSE {ContentNew}

Queries == {<<111, 108, 100>>, <<110, 101, 119>>, <<74, 87, 84>>,
            <<97, 110, 110>>, <<98, 111, 98>>}

ReadOps == {"recall", "search", "get_state", "session"}

----------------------------------------------------------------------------
(* Two CLI processes that run a store command at the same time.  A process
   is at a statement of index.js / storeEvent; existing and rowid are the
   results of its SELECTs. *)

Procs == {1, 2}

NoRow == [found |-> FALSE, rowid |-> 0, title |-> <<>>, content |-> <<>>]

IdleProc == [pc |-> "idle", existing |-> NoRow, rowid |-> 0]

----------------------------------------------------------------------------
(* The state machine *)

Init ==
  /\ agents = EmptyTable
  /\ events = EmptyTable
  /\ entities = EmptyTable
  /\ lessons = EmptyTable
  /\ principles = EmptyTable
  /\ summaries = EmptyTable
  /\ state = EmptyTable
  /\ fts = [events |-> {}, entities |-> {}, lessons |-> {}]
  /\ now = StartTime
  /\ last = [op |-> "init", agent |-> NoId, kind |-> "", ok |-> TRUE,
             id |-> NoId, given |-> FALSE, data |-> <<>>]
  /\ ops = 0
  /\ ticks = 0
  /\ procs = [p \in Procs |-> IdleProc]
  /\ conn = ClosedConn

Commit(db) ==
  /\ agents' = db.agents
  /\ events' = db.events
  /\ entities' = db.entities
  /\ lessons' = db.lessons
  /\ principles' = db.principles
  /\ summaries' = db.summaries
  /\ state' = db.state
  /\ fts' = db.fts

(* the wall clock moves between two commands *)
Tick ==
  /\ ticks < MaxTicks
  /\ now' = now + 1
  /\ ticks' = ticks + 1
  /\ UNCHANGED <<conn, procs, dbvars, last, ops>>

(* index.js, case 'store': the tiering pass, then the store function of the
   requested type *)
(* mutation: the store command without its tiering pass *)
storeCommandNoTiering(db, agentId, type, data, t) ==
  IF type = "event" THEN storeEvent(db, agentId, data, t)
  ELSE IF type = "entity" THEN storeEntity(db, agentId, data, t)
  ELSE IF type = "lesson" THEN storeLesson(db, agentId, data, t)
  ELSE IF type = "principle" THEN storePrinciple(db, agentId, data, t)
  ELSE IF type = "summary" THEN storeSummary(db, agentId, data, t)
  ELSE [db |-> db, ok |-> FALSE, id |-> NoId]

storeCommand(db, agentId, type, data, t) ==
  LET d0 == updateTiers(db, t)
  IN IF type = "event" THEN storeEvent(d0, agentId, data, t)
     ELSE IF type = "entity" THEN storeEntity(d0, agentId, data, t)
     ELSE IF type = "lesson" THEN storeLesson(d0, agentId, data, t)
     ELSE IF type = "principle" THEN storePrinciple(d0, agentId, data, t)
     ELSE IF type = "summary" THEN storeSummary(d0, agentId, data, t)
     ELSE [db |-> d0, ok |-> FALSE, id |-> NoId]

StoreStep(agentId, type, data) ==
  LET r == storeCommand(DB, agentId, type, data, now)
  IN /\ Commit(r.db)
     /\ last' = [op |-> "store", agent |-> agentId, kind |-> type,
                 ok |-> r.ok, id |-> r.id, given |-> Truthy(data, "id"),
                 data |-> data]
     /\ ops' = ops + 1
     /\ UNCHANGED <<conn, procs, now, ticks>>

Store(agentId, type, data) ==
  /\ ops < MaxOps
  /\ StoreStep(agentId, type, data)

(* index.js, case 'store', with --type or the JSON missing, the JSON
   malformed, or a type that is none of the five: the tiering pass has run
   when the error is thrown *)
StoreRejected(agentId, why) ==
  /\ ops < MaxOps
  /\ Commit(updateTiers(DB, now))
  /\ why \in Rejections
  /\ last' = [op |-> "store", agent |-> agentId, kind |-> "rejected",
              ok |-> FALSE, id |-> NoId, given |-> FALSE, data |-> <<>>]
  /\ ops' = ops + 1
  /\ UNCHANGED <<conn, procs, now, ticks>>

SetState(agentId, content) ==
  /\ ops < MaxOps
  /\ Commit(setState(DB, agentId, content, now).db)
  /\ last' = [op |-> "set_state", agent |-> agentId, kind |-> "",
              ok |-> TRUE, id |-> NoId, given |-> FALSE,
              data |-> [content |-> content]]
  /\ ops' = ops + 1
  /\ UNCHANGED <<conn, procs, now, ticks>>

GetState(agentId) ==
  /\ Commit(getState(DB, agentId, now).db)
  /\ last' = [op |-> "get_state", agent |-> agentId, kind |-> "",
              ok |-> TRUE, id |-> NoId, given |-> FALSE, data |-> <<>>]
  /\ UNCHANGED <<conn, procs, now, ticks, ops>>

Session(agentId) ==
  /\ Commit(getSession(DB, agentId, now).db)
  /\ last' = [op |-> "session", agent |-> agentId, kind |-> "",
              ok |-> TRUE, id |-> NoId, given |-> FALSE, data |-> <<>>]
  /\ UNCHANGED <<conn, procs, now, ticks, ops>>

Recall(agentId) ==
  /\ last' = [op |-> "recall", agent |-> agentId, kind |-> "",
              ok |-> TRUE, id |-> NoId, given |-> FALSE, data |-> <<>>]
  /\ UNCHANGED <<conn, procs, dbvars, now, ticks, ops>>

(* index.js, case 'recall', with a --type that is none of the five: recall
   throws, the command prints the error and exits *)
UnknownTypes == {"event"}

RecallUnknown(agentId, type) ==
  /\ type \in UnknownTypes
  /\ last' = [op |-> "recall", agent |-> agentId, kind |-> type,
              ok |-> recall(DB, agentId, type, <<>>, RecallLimit).ok,
              id |-> NoId, given |-> FALSE, data |-> <<>>]
  /\ UNCHANGED <<conn, procs, dbvars, now, ticks, ops>>

Search(agentId) ==
  /\ last' = [op |-> "search", agent |-> agentId, kind |-> "",
              ok |-> TRUE, id |-> NoId, given |-> FALSE, data |-> <<>>]
  /\ UNCHANGED <<conn, procs, dbvars, now, ticks, ops>>

(* The commands of two agents, issued within one second of the clock *)
Next ==
  \/ \E a \in Agents : \E in \in StoreInputs(a, now) : Store(a, in[1], in[2])
  \/ \E why \in Rejections : StoreRejected(AgentA, why)
  \/ \E a \in Agents : \E c \in StateContents(a) : SetState(a, c)
  \/ \E a \in Agents : GetState(a)
  \/ \E a \in Agents : Session(a)
  \/ \E a \in Agents : Recall(a)
  \/ \E a \in Agents : \E type \in UnknownTypes : RecallUnknown(a, type)
  \/ \E a \in Agents : Search(a)

Spec == Init /\ [][Next]_vars

----------------------------------------------------------------------------
(* A second specification in which the clock advances between the commands
   of one agent: events dated at the tier thresholds, one store of each
   other kind, rejected stores and the reads. *)
ClockInputs(t) ==
  ({"event"} \X {EventNew, EventAged(t, HotAge), EventAged(t, WarmAge),
                 WithId(EventOld, EventId1), EventCold})
    \cup ({"entity"} \X {WithId(EntityAnn, EntityId1)})
    \cup ({"lesson"} \X {WithId(LessonOld, LessonId1)})
    \cup ({"principle"} \X {PrincipleOld})
    \cup ({"summary"} \X {WithId(SummaryOld, SummaryId1)})

NextClock ==
  \/ Tick
  \/ \E in \in ClockInputs(now) : Store(AgentA, in[1], in[2])
  \/ \E why \in Rejections : StoreRejected(AgentA, why)
  \/ GetState(AgentA)
  \/ Session(AgentA)
  \/ Recall(AgentA)
  \/ Search(AgentA)

SpecClock == Init /\ [][NextClock]_vars

----------------------------------------------------------------------------
(* A third specification for the limits of the session: one agent stores up
   to MaxBulk events without ids, each dated exactly 72 hours back; the
   other agent may store the first one. *)

OwnedBy(table, agentId) == {id \in DOMAIN table : table[id].agent_id = agentId}

BulkStore(agentId) ==
  /\ Cardinality(DOMAIN events) < MaxBulk
  /\ agentId = AgentB => DOMAIN events = {}
  /\ StoreStep(agentId, "event", EventAged(now, HotAge))

NextBulk ==
  \/ Tick
  \/ \E a \in Agents : BulkStore(a)
  \/ \E a \in Agents : Session(a)

SpecBulk == Init /\ [][NextBulk]_vars

----------------------------------------------------------------------------
(* A fourth specification for the synthesized ids: two agents store events
   and lessons without ids, and events under caller-given ids that carry
   the date of the first day; the clock may pass midnight. *)

(* "2026-02-01-999" and "2026-02-01-abc" *)
IdDay999 == DateStr(StartTime) \o <<45, 57, 57, 57>>

IdDayAbc == DateStr(StartTime) \o <<45, 97, 98, 99>>

IdInputs(agentId) ==
  IF agentId = AgentA
  THEN ({"event"} \X {EventOld, WithId(EventOld, IdDay999),
                      WithId(EventOld, IdDayAbc)})
         \cup ({"lesson"} \X {LessonOld})
  ELSE {"event"} \X {EventNew}

IdStore(agentId, type, data) ==
  /\ ops < MaxIdOps
  /\ StoreStep(agentId, type, data)

NextIds ==
  \/ Tick
  \/ \E a \in Agents : \E in \in IdInputs(a) : IdStore(a, in[1], in[2])
  \/ \E a \in Agents : Recall(a)

SpecIds == Init /\ [][NextIds]_vars

----------------------------------------------------------------------------
(* A fifth specification: two processes store an event under the same id
   for the same agent at the same time, after at most one store that ran
   alone.  Each SQL statement is one step (it autocommits); the statements
   of the two processes interleave in any order. *)

EventThird == [type |-> "work", title |-> NameAnn, content |-> NameBob]

RaceData(p) ==
  IF p = 1 THEN WithId(EventNew, EventId1) ELSE WithId(EventThird, EventId1)

At(p, pc) == procs[p].pc = pc

Goto(p, pc) == procs' = [procs EXCEPT ![p].pc = pc]

RaceSeed ==
  /\ ops = 0
  /\ \A p \in Procs : At(p, "idle")
  /\ StoreStep(AgentA, "event", WithId(EventOld, EventId1))

(* index.js: updateTiers() *)
RaceBegin(p) ==
  /\ At(p, "idle")
  /\ Commit(updateTiers(DB, now))
  /\ Goto(p, "ensureSelect")
  /\ UNCHANGED <<conn, now, last, ops, ticks>>

(* ensureAgent: SELECT id FROM agents WHERE id = ? *)
RaceEnsureSelect(p) ==
  /\ At(p, "ensureSelect")
  /\ Goto(p, IF AgentA \in DOMAIN agents THEN "select" ELSE "ensureInsert")
  /\ UNCHANGED <<conn, dbvars, now, last, ops, ticks>>

(* ensureAgent: INSERT INTO agents; the primary key rejects a second row *)
RaceEnsureInsert(p) ==
  /\ At(p, "ensureInsert")
  /\ IF AgentA \in DOMAIN agents
     THEN Goto(p, "failed") /\ UNCHANGED dbvars
     ELSE Commit(ensureAgent(DB, AgentA, now)) /\ Goto(p, "select")
  /\ UNCHANGED <<conn, now, last, ops, ticks>>

(* storeEvent: SELECT rowid, title, content FROM events WHERE id = ? *)
RaceSelect(p) ==
  /\ At(p, "select")
  /\ procs' = [procs EXCEPT ![p] =
       IF EventId1 \in DOMAIN events
       THEN [pc |-> "ftsDelete", rowid |-> 0,
             existing |-> [found |-> TRUE, rowid |-> events[EventId1].rowid,
                           title |-> events[EventId1].title,
                           content |-> events[EventId1].content]]
       ELSE [pc |-> "insert", rowid |-> 0, existing |-> NoRow]]
  /\ UNCHANGED <<conn, dbvars, now, last, ops, ticks>>

(* update branch: the FTS 'delete' with the values read by the SELECT *)
RaceFtsDelete(p) ==
  /\ At(p, "ftsDelete")
  /\ Commit(ftsDelete(DB, "events", procs[p].existing.rowid,
                      <<procs[p].existing.title, procs[p].existing.content>>))
  /\ Goto(p, "update")
  /\ UNCHANGED <<conn, now, last, ops, ticks>>

(* update branch: UPDATE events SET ... WHERE id = ? *)
RaceUpdate(p) ==
  /\ At(p, "update")
  /\ Commit([DB EXCEPT !.events[EventId1] =
               [@ EXCEPT !.type = RaceData(p).type,
                         !.timestamp = now,
                         !.title = RaceData(p).title,
                         !.content = RaceData(p).content,
                         !.metadata = Stringify(RaceData(p), "metadata", EmptyObjectText)]])
  /\ Goto(p, "ftsReinsert")
  /\ UNCHANGED <<conn, now, last, ops, ticks>>

(* update branch: INSERT INTO events_fts with existing.rowid *)
RaceFtsReinsert(p) ==
  /\ At(p, "ftsReinsert")
  /\ Commit(ftsInsert(DB, "events", procs[p].existing.rowid,
                      <<RaceData(p).title, RaceData(p).content>>))
  /\ Goto(p, "done")
  /\ UNCHANGED <<conn, now, last, ops, ticks>>

(* insert branch: INSERT INTO events; the primary key rejects a second row *)
RaceInsert(p) ==
  /\ At(p, "insert")
  /\ IF EventId1 \in DOMAIN events
     THEN Goto(p, "failed") /\ UNCHANGED dbvars
     ELSE /\ Commit([DB EXCEPT !.events = Put(@, EventId1,
                       [rowid |-> NextRowid(events), agent_id |-> AgentA,
                        type |-> RaceData(p).type, timestamp |-> now,
                        title |-> RaceData(p).title,
                        content |-> RaceData(p).content,
                        metadata |-> Stringify(RaceData(p), "metadata", EmptyObjectText),
                        tier |-> "hot"])])
          /\ Goto(p, "rowid")
  /\ UNCHANGED <<conn, now, last, ops, ticks>>

(* insert branch: SELECT rowid FROM events WHERE id = ? *)
RaceRowid(p) ==
  /\ At(p, "rowid")
  /\ procs' = [procs EXCEPT ![p].pc = "ftsInsert",
                            ![p].rowid = events[EventId1].rowid]
  /\ UNCHANGED <<conn, dbvars, now, last, ops, ticks>>

(* insert branch: INSERT INTO events_fts with the rowid read *)
RaceFtsInsert(p) ==
  /\ At(p, "ftsInsert")
  /\ Commit(ftsInsert(DB, "events", procs[p].rowid,
                      <<RaceData(p).title, RaceData(p).content>>))
  /\ Goto(p, "done")
  /\ UNCHANGED <<conn, now, last, ops, ticks>>

NextRace ==
  \/ RaceSeed
  \/ \E p \in Procs : RaceBegin(p)
  \/ \E p \in Procs : RaceEnsureSelect(p)
  \/ \E p \in Procs : RaceEnsureInsert(p)
  \/ \E p \in Procs : RaceSelect(p)
  \/ \E p \in Procs : RaceFtsDelete(p)
  \/ \E p \in Procs : RaceUpdate(p)
  \/ \E p \in Procs : RaceFtsReinsert(p)
  \/ \E p \in Procs : RaceInsert(p)
  \/ \E p \in Procs : RaceRowid(p)
  \/ \E p \in Procs : RaceFtsInsert(p)

SpecRace == Init /\ [][NextRace]_vars


----------------------------------------------------------------------------
(* A sixth specification for the updates of entities, principles,
   summaries and lessons: the first agent stores a record of each kind and
   stores it again under the same id with the fields of the payload changed;
   the second agent stores under the same ids; the clock advances in
   between. *)

TypeM == <<109>>

TypeT == <<116>>

Period2 == <<50>>

NameQ == <<81>>

LessonSourced == [type |-> "obs", title |-> TitleOld, content |-> ContentOld,
                  source_event_id |-> EventId1]

EntityOther == [type |-> TypeT, name |-> NameBob, content |-> ContentNew,
                metadata |-> <<<<KeyK, 1>>>>]

PrincipleOther == [name |-> NameQ, content |-> ContentNew,
                   source_lessons |-> <<LessonId1>>, metadata |-> <<<<KeyK, 1>>>>]

SummaryOther == [type |-> TypeM, period |-> Period2, content |-> ContentNew,
                 event_count |-> 5]

(* the id storePrinciple derives for PrincipleOld of the first agent *)
PrincipleIdP == AgentA \o <<47>> \o NameP

UpdateInputs(agentId) ==
  IF agentId = AgentA
  THEN ({"entity"} \X {WithId(EntityAnn, EntityId1), WithId(EntityOther, EntityId1)})
         \cup ({"principle"} \X {PrincipleOld, WithId(PrincipleOther, PrincipleIdP)})
         \cup ({"summary"} \X {WithId(SummaryOld, SummaryId1),
                               WithId(SummaryOther, SummaryId1)})
         \cup ({"lesson"} \X {WithId(LessonOld, LessonId1), WithId(LessonNew, LessonId1),
                              WithId(LessonSourced, LessonId1)})
  ELSE ({"entity"} \X {WithId(EntityOther, EntityId1)})
         \cup ({"principle"} \X {WithId(PrincipleOther, PrincipleIdP)})
         \cup ({"summary"} \X {WithId(SummaryNew, SummaryId1)})

NextUpdate ==
  \/ Tick
  \/ \E a \in Agents : \E in \in UpdateInputs(a) : Store(a, in[1], in[2])
  \/ \E a \in Agents : Recall(a)

SpecUpdate == Init /\ [][NextUpdate]_vars


----------------------------------------------------------------------------
(* A seventh specification for recall and the session: a database holds
   records of one kind.  The first agent stores up to MaxOps records of the
   kind, or up to MaxBulk events of which each is dated one second before the
   one stored before it; the second agent may store the first event; the
   clock advances in between; the agents recall and the first agent reads
   its session. *)

EventNote == [type |-> "note", title |-> TitleNew, content |-> ContentNew]

LessonMistake == [type |-> "mistake", title |-> TitleNew, content |-> ContentNew]

RecallInputs(t) ==
  ({"event"} \X {EventNote, EventAged(t, HotAge)})
    \cup ({"entity"} \X {EntityAnn, EntityOther})
    \cup ({"lesson"} \X {LessonOld, LessonMistake})
    \cup ({"principle"} \X {PrincipleOld, PrincipleOther})
    \cup ({"summary"} \X {SummaryOld, SummaryOther})

(* no table but the one of the kind holds a record *)
OnlyKind(kind) ==
  /\ kind # "event" => DOMAIN events = {}
  /\ kind # "entity" => DOMAIN entities = {}
  /\ kind # "lesson" => DOMAIN lessons = {}
  /\ kind # "principle" => DOMAIN principles = {}
  /\ kind # "summary" => DOMAIN summaries = {}

RecallBulk(agentId) ==
  /\ Cardinality(DOMAIN events) < MaxBulk
  /\ agentId = AgentB => DOMAIN events = {}
  /\ OnlyKind("event")
  /\ \A id \in DOMAIN events : events[id].type = "work" /\ events[id].tier = "hot"
  /\ StoreStep(agentId, "event", EventAged(now, Cardinality(DOMAIN events)))

NextRecall ==
  \/ Tick
  \/ \E in \in RecallInputs(now) : OnlyKind(in[1]) /\ Store(AgentA, in[1], in[2])
  \/ \E a \in Agents : RecallBulk(a)
  \/ \E a \in Agents : Recall(a)
  \/ Session(AgentA)

SpecRecall == Init /\ [][NextRecall]_vars


----------------------------------------------------------------------------
(* An eighth specification for the lessons of a session: within the first
   MaxOps stores the first agent stores consolidated lessons, the second
   agent stores a lesson, and the clock advances; the first agent goes on to
   store up to MaxLessons lessons, each unconsolidated and dated one second
   before the one stored before it. *)

LessonAged(t, age) == [type |-> "obs", title |-> TitleOld, content |-> ContentOld,
                       timestamp |-> t - age]

LessonInputs(agentId) ==
  IF agentId = AgentA THEN {"lesson"} \X {LessonNew} ELSE {"lesson"} \X {LessonOld}

LessonBulk ==
  /\ Cardinality(DOMAIN lessons) < MaxLessons
  /\ StoreStep(AgentA, "lesson", LessonAged(now, Cardinality(DOMAIN lessons)))

NextLessons ==
  \/ ops < MaxOps /\ Tick
  \/ \E a \in Agents : \E in \in LessonInputs(a) : Store(a, in[1], in[2])
  \/ LessonBulk
  \/ \E a \in Agents : Session(a)

SpecLessons == Init /\ [][NextLessons]_vars

----------------------------------------------------------------------------
(* Properties *)

DBnext == [agents |-> agents', events |-> events', entities |-> entities',
           lessons |-> lessons', principles |-> principles',
           summaries |-> summaries', state |-> state', fts |-> fts']

IndexedKinds == {"event", "entity", "lesson"}

TableName(kind) ==
  IF kind = "event" THEN "events"
  ELSE IF kind = "entity" THEN "entities"
  ELSE IF kind = "lesson" THEN "lessons"
  ELSE IF kind = "principle" THEN "principles" ELSE "summaries"

(* the index entries of one row *)
EntriesOf(index, rowid) == {e \in index : e[1] = rowid}

(* the indexed fields of a row of an indexed kind *)
IndexedText(kind, row) ==
  IF kind = "entity" THEN <<row.name, row.content>> ELSE <<row.title, row.content>>

(* the index holds, for the row, exactly the terms of its indexed fields *)
IndexMatches(db, kind, id) ==
  LET row == db[TableName(kind)][id]
  IN EntriesOf(db.fts[TableName(kind)], row.rowid)
       = DocEntries(row.rowid, IndexedText(kind, row))

(* this step is a store command / a read command *)
IsStoreStep == ops' = ops + 1 /\ last'.op = "store"

IsReadStep == last'.op \in ReadOps /\ ops' = ops /\ now' = now

(* C1: after a completed store of an event, entity or lesson, the index
   document of the record equals the record's indexed fields. *)
C1_IndexMatchesRecord ==
  (last.op = "store" /\ last.ok /\ last.kind \in IndexedKinds)
    => IndexMatches(DB, last.kind, last.id)

(* C2: after a storeEvent call on an id, the table holds one row for the id
   and the index one document for it, with the row's text (the text of the
   last store that wrote it): a search of the owner for a term finds the
   event exactly when the term is in that text. *)
C2_OneRowOneDocument ==
  (last.op = "store" /\ last.kind = "event" /\ last.id \in DOMAIN events)
    => /\ IndexMatches(DB, "event", last.id)
       /\ \A q \in Queries :
            LET hits == search(DB, events[last.id].agent_id, q, {"events"}, SearchLimit)
                text == <<events[last.id].title, events[last.id].content>>
            IN Cardinality({i \in 1..Len(hits) : hits[i].id = last.id})
                 = IF Tokens(q) \subseteq DocTerms(text) THEN 1 ELSE 0

(* C3: a store of an indexed kind that fails changes neither the indexed
   fields of the record of its id nor the index. *)
C3_FailureUnit ==
  [][(IsStoreStep /\ ~last'.ok /\ last'.kind \in IndexedKinds)
       => LET t == TableName(last'.kind)
              id == last'.id
          IN /\ (id \in DOMAIN DB[t]) = (id \in DOMAIN DBnext[t])
             /\ id \in DOMAIN DB[t] =>
                  IndexedText(last'.kind, DB[t][id]) = IndexedText(last'.kind, DBnext[t][id])
             /\ fts' = fts]_vars

FilterSet == {<<>>, [tier |-> "hot"]}

RowIds(rows) == {rows[i].id : i \in 1..Len(rows)}

HitOwner(db, hit) ==
  IF hit.type = "event" THEN db.events[hit.id].agent_id
  ELSE IF hit.type = "entity" THEN db.entities[hit.id].agent_id
  ELSE db.lessons[hit.id].agent_id

(* C4: no read issued for an agent returns a record of another agent, and
   the ids recalled for two agents are disjoint. *)
C4_ReadIsolation ==
  \A a \in Agents :
    /\ \A type \in RecallTypes : \A f \in FilterSet :
         LET rows == recall(DB, a, type, f, RecallLimit).rows
         IN /\ \A i \in 1..Len(rows) : DB[type][rows[i].id].agent_id = a
            /\ \A b \in Agents \ {a} : \A g \in FilterSet :
                 RowIds(rows) \cap RowIds(recall(DB, b, type, g, RecallLimit).rows) = {}
    /\ \A q \in Queries :
         LET hits == search(DB, a, q, SearchTypes, SearchLimit)
         IN \A i \in 1..Len(hits) : HitOwner(DB, hits[i]) = a
    /\ LET s == getSession(DB, a, now).result
       IN /\ \A i \in 1..Len(s.hot_events) : events[s.hot_events[i].id].agent_id = a
          /\ \A i \in 1..Len(s.principles) : principles[s.principles[i].id].agent_id = a
          /\ \A i \in 1..Len(s.recent_summary) : summaries[s.recent_summary[i].id].agent_id = a
          /\ \A i \in 1..Len(s.recent_lessons) : lessons[s.recent_lessons[i].id].agent_id = a
          /\ s.state = getState(DB, a, now).result
    /\ getState(DB, a, now).result.content
         = IF a \in DOMAIN state THEN state[a].content ELSE <<>>

(* a recall was issued for an agent that owns events while the other agent
   owns events too *)
C4_Witness ==
  /\ last.op = "recall"
  /\ \A a \in Agents : OwnedBy(events, a) # {}
  /\ Len(recall(DB, last.agent, "events", <<>>, RecallLimit).rows) > 0

(* the fields of a row that a tiering pass does not write *)
SameButTier(r1, r2) ==
  /\ DOMAIN r1 = DOMAIN r2
  /\ \A k \in (DOMAIN r1) \ {"tier"} : r1[k] = r2[k]

(* C5: a store for one agent changes no field (the tier, which every
   tiering pass rewrites, set aside) and no index document of a record
   owned by another agent. *)
C5_WriteIsolation ==
  [][IsStoreStep
       => \A t \in RecallTypes : \A id \in DOMAIN DB[t] :
            DB[t][id].agent_id # last'.agent
              => /\ id \in DOMAIN DBnext[t]
                 /\ SameButTier(DB[t][id], DBnext[t][id])
                 /\ t \in SearchTypes
                      => EntriesOf(fts'[t], DB[t][id].rowid)
                           = EntriesOf(fts[t], DB[t][id].rowid)]_vars

(* the tier the thresholds of the pass give an event at time t *)
TierIsRight(e, t) ==
  /\ e.tier = "cold" <=> e.timestamp < t - 2592000
  /\ e.tier = "warm" <=> (t - 2592000 <= e.timestamp /\ e.timestamp < t - 259200)
  /\ e.tier = "hot" <=> e.timestamp >= t - 259200

(* C6: right after a tiering pass at time T (a store command that writes
   no event: it was rejected or stored another kind) every event is cold,
   warm or hot exactly as its timestamp and T say; 72 hours old is hot. *)
C6_TiersAfterPass ==
  [][(IsStoreStep /\ last'.kind # "event")
       => \A id \in DOMAIN events' : TierIsRight(events'[id], now)]_vars

(* a pass has demoted an event that is 72 hours and one second old *)
C6_Witness ==
  /\ last.op = "store"
  /\ last.kind = "rejected"
  /\ \E id \in DOMAIN events :
       events[id].timestamp = now - HotAge - 1 /\ events[id].tier = "warm"

(* C7: after a store command that completes at time T every event,
   the one it wrote included, has the tier of its timestamp and T. *)
C7_TiersFreshAfterStore ==
  [][(IsStoreStep /\ last'.ok)
       => \A id \in DOMAIN events' : TierIsRight(events'[id], now)]_vars

(* C8: every store command runs the tiering pass, before its write: each
   event it finds gets the tier of its old timestamp and the event it
   inserts is hot; a read leaves every tier as it is. *)
C8_TieringOnStoreOnly ==
  [][/\ IsStoreStep
          => /\ \A id \in DOMAIN events :
                  /\ id \in DOMAIN events'
                  /\ TierIsRight([tier |-> events'[id].tier,
                                  timestamp |-> events[id].timestamp], now)
             /\ \A id \in (DOMAIN events') \ (DOMAIN events) : events'[id].tier = "hot"
     /\ IsReadStep
          => /\ DOMAIN events' = DOMAIN events
             /\ \A id \in DOMAIN events : events'[id].tier = events[id].tier]_vars

(* a completed store has demoted an older event to warm *)
C8_Witness ==
  /\ last.op = "store"
  /\ last.ok
  /\ \E id \in DOMAIN events :
       /\ id # last.id
       /\ events[id].timestamp = now - HotAge - 1
       /\ events[id].tier = "warm"

(* C9, as claimed: the session's hot events are at most 20, owned by the
   agent, and dated within the 72 hours before the call. *)
C9_HotWithin72h ==
  \A a \in Agents :
    LET hot == getSession(DB, a, now).result.hot_events
    IN /\ Len(hot) <= 20
       /\ \A i \in 1..Len(hot) :
            /\ events[hot[i].id].agent_id = a
            /\ hot[i].timestamp >= now - 259200
            /\ hot[i].timestamp <= now

(* C9, amended: the session's hot events are at most 20, owned by the
   agent, and each has the stored tier hot. *)
C9_HotEventsStoredHot ==
  \A a \in Agents :
    LET hot == getSession(DB, a, now).result.hot_events
    IN /\ Len(hot) <= 20
       /\ \A i \in 1..Len(hot) :
            /\ events[hot[i].id].agent_id = a
            /\ events[hot[i].id].tier = "hot"
            /\ hot[i].tier = "hot"

(* a session was read for an agent that owns more than 20 hot events *)
C9_Witness ==
  /\ last.op = "session"
  /\ Cardinality({id \in OwnedBy(events, last.agent) : events[id].tier = "hot"}) > 20
  /\ Len(getSession(DB, last.agent, now).result.hot_events) = 20
  /\ \E b \in Agents \ {last.agent} : OwnedBy(events, b) # {}

(* C10: a store request that is rejected leaves every table and the index
   as they were. *)
C10_RejectedStoreWritesNothing ==
  [][(IsStoreStep /\ ~last'.ok) => UNCHANGED dbvars]_vars

----------------------------------------------------------------------------
(* Synthesized ids *)

IdKinds == {"event", "lesson"}

(* the id of form YYYY-MM-DD-seq for today and the sequence number n *)
IdOf(t, n) == DateStr(t) \o <<45>> \o padStart(ToDigits(n), 3, 48)

(* the numeric suffixes of the ids of a table that carry today's date *)
SuffixesToday(table, t) ==
  {parseInt(LastPart(id)) :
     id \in {i \in DOMAIN table : StartsWith(i, DateStr(t) \o <<45>>)}} \ {NaN}

MaxNat(S) == IF S = {} THEN 0 ELSE CHOOSE m \in S : \A o \in S : o <= m

(* this step is a completed store of an event or lesson without an id *)
IsIdlessStore ==
  IsStoreStep /\ last'.ok /\ ~last'.given /\ last'.kind \in IdKinds

(* C11: of two consecutive id-less stores of one kind on one day, the second
   gets an id of the form YYYY-MM-DD-seq, zero-padded to width 3, whose
   sequence number is the first one's plus one. *)
C11_ConsecutiveIdsIncrease ==
  [][(/\ last.op = "store" /\ last.ok /\ ~last.given
      /\ IsIdlessStore
      /\ last'.kind = last.kind
      /\ StartsWith(last.id, DateStr(now) \o <<45>>))
       => \E n \in 1..(MaxNat({parseInt(LastPart(last.id))}) + 1) :
            /\ last.id = IdOf(now, n)
            /\ last'.id = IdOf(now, n + 1)]_vars

(* every id of the table that carries today's date ends in a number *)
AllNumericToday(table, t) ==
  \A id \in DOMAIN table :
    StartsWith(id, DateStr(t) \o <<45>>) => parseInt(LastPart(id)) # NaN

(* C12: where the ids of today end in numbers, the id synthesized for an
   id-less event or lesson is today's date with 1 + the highest numeric
   suffix among the ids of that kind, of any agent, that carry today's
   date. *)
C12_IdIsHighestPlusOne ==
  [][(IsIdlessStore /\ AllNumericToday(DB[TableName(last'.kind)], now))
       => last'.id
            = IdOf(now, 1 + MaxNat(SuffixesToday(DB[TableName(last'.kind)], now)))]_vars

----------------------------------------------------------------------------
(* Concurrent stores *)

(* C13: once two concurrent stores of an event under the same id have both
   completed, the record has the text of one of the two requests and the
   index holds for it exactly the terms of that text. *)
C13_ConcurrentStoresSerialize ==
  (\A p \in Procs : At(p, "done"))
    => /\ EventId1 \in DOMAIN events
       /\ \E p \in Procs :
            /\ events[EventId1].title = RaceData(p).title
            /\ events[EventId1].content = RaceData(p).content
       /\ fts.events
            = DocEntries(events[EventId1].rowid,
                         <<events[EventId1].title, events[EventId1].content>>)

----------------------------------------------------------------------------
(* Agents *)

(* every row of every table names an agent that the agents table holds *)
AgentRefs(db) ==
  /\ \A t \in RecallTypes : \A id \in DOMAIN db[t] :
       db[t][id].agent_id \in DOMAIN db.agents
  /\ \A a \in DOMAIN db.state : a \in DOMAIN db.agents

(* no step removes a row of a table *)
NoRowDeleted ==
  /\ DOMAIN agents \subseteq DOMAIN agents'
  /\ DOMAIN state \subseteq DOMAIN state'
  /\ \A t \in RecallTypes : DOMAIN DB[t] \subseteq DOMAIN DBnext[t]

(* C14: after every step, every row of events, entities, lessons,
   principles, summaries and state has an agent_id that the agents table
   holds, and no step deletes an agent or a record. *)
C14_AgentRefsExist ==
  [][AgentRefs(DBnext) /\ NoRowDeleted]_vars

(* a state row and a record exist, of two different agents *)
C14_Witness ==
  /\ last.op = "set_state"
  /\ last.agent \in DOMAIN state
  /\ \E t \in RecallTypes : \E id \in DOMAIN DB[t] :
       DB[t][id].agent_id # last.agent

(* the commands that reference an agent: a store that reaches its store
   function, set_state, get_state, get_session, recall, search *)
IsStoreOfKind(l) == l.op = "store" /\ l.kind # "rejected"

(* C15, as claimed: after a store of any kind, set_state, get_state,
   get_session, recall or search for an agent, the agents table holds the
   agent. *)
C15_AgentCreatedOnAnyReference ==
  (IsStoreOfKind(last) \/ last.op \in {"set_state"} \cup ReadOps)
    => last.agent \in DOMAIN agents

(* C15, amended: a store that reaches its store function, set_state,
   get_state and get_session create the agent of the command if the table
   does not hold it; recall and search leave the agents table as it is; no
   command changes the row of an agent that exists. *)
C15_AgentCreatedOnStoreStateSession ==
  [][/\ (IsStoreOfKind(last') \/ last'.op \in {"set_state", "get_state", "session"})
          => last'.agent \in DOMAIN agents'
     /\ (IsReadStep /\ last'.op \in {"recall", "search"}) => agents' = agents
     /\ \A a \in DOMAIN agents : a \in DOMAIN agents' /\ agents'[a] = agents[a]]_vars

(* get_state has created an agent that owns nothing *)
C15_Witness ==
  /\ last.op = "get_state"
  /\ last.agent \in DOMAIN agents
  /\ last.agent \notin DOMAIN state
  /\ \A t \in RecallTypes : OwnedBy(DB[t], last.agent) = {}

----------------------------------------------------------------------------
(* Absence *)

(* the empty filter and, for the kinds with a type filter the inputs can
   miss, filters that no stored record satisfies *)
AbsentFilters(type) ==
  IF type = "events" THEN {<<>>, [event_type |-> "nonexistent"], [tier |-> "frozen"]}
  ELSE IF type = "lessons" THEN {<<>>, [lesson_type |-> "nonexistent"]}
  ELSE {<<>>}

Satisfies(type, row, f) ==
  /\ (type = "events" /\ Has(f, "tier")) => row.tier = f.tier
  /\ (type = "events" /\ Has(f, "event_type")) => row.type = f.event_type
  /\ (type = "events" /\ Has(f, "since")) => row.timestamp >= f.since
  /\ (type = "events" /\ Has(f, "until")) => row.timestamp <= f.until
  /\ (type = "entities" /\ Has(f, "entity_type")) => row.type = f.entity_type
  /\ (type = "lessons" /\ Has(f, "lesson_type")) => row.type = f.lesson_type
  /\ (type = "lessons" /\ Has(f, "since")) => row.timestamp >= f.since
  /\ (type = "summaries" /\ Has(f, "summary_type")) => row.type = f.summary_type
  /\ (type = "summaries" /\ Has(f, "since")) => row.created_at >= f.since

EmptySession ==
  [state |-> [content |-> <<>>, updated_at |-> NullTime],
   hot_events |-> <<>>, principles |-> <<>>, recent_summary |-> <<>>,
   recent_lessons |-> <<>>,
   counts |-> [hot_events |-> 0, principles |-> 0, recent_lessons |-> 0]]

(* C16: get_state of an agent without a state row returns the empty content
   with a null updated_at, recall of an agent without a matching record
   returns the empty list, and get_session of an agent never seen returns the
   empty state, empty lists, no summary and counts 0; none of them fails. *)
C16_AbsenceIsNotAnError ==
  \A a \in Agents :
    /\ a \notin DOMAIN state =>
         getState(DB, a, now).result = [content |-> <<>>, updated_at |-> NullTime]
    /\ \A type \in RecallTypes : \A f \in AbsentFilters(type) :
         (\A id \in OwnedBy(DB[type], a) : ~Satisfies(type, DB[type][id], f))
           => recall(DB, a, type, f, RecallLimit) = [ok |-> TRUE, rows |-> <<>>]
    /\ a \notin DOMAIN agents => getSession(DB, a, now).result = EmptySession

(* one agent owns state and events, the other was never seen, and the step
   taken was a recall for the agent never seen *)
C16_Witness ==
  /\ last.op = "recall"
  /\ last.agent \notin DOMAIN agents
  /\ \E b \in Agents \ {last.agent} :
       /\ b \in DOMAIN state
       /\ OwnedBy(events, b) # {}
  /\ getSession(DB, last.agent, now).result = EmptySession
  /\ recall(DB, last.agent, "events", <<>>, RecallLimit).rows = <<>>

----------------------------------------------------------------------------
(* State *)

(* C17: after set_state of an agent get_state of that agent returns the
   content just set, the state table has a row for the agent, the state of
   every other agent is as it was, and no other command changes a state row. *)
C17_StateIsPerAgentSingleton ==
  [][IF last'.op = "set_state" /\ ops' # ops
     THEN LET a == last'.agent
          IN /\ getState(DBnext, a, now').result.content = last'.data.content
             /\ DOMAIN state' = DOMAIN state \cup {a}
             /\ \A b \in DOMAIN state \ {a} : state'[b] = state[b]
     ELSE state' = state]_vars

(* the last command set the state of one agent while the other agent has a
   state of a different content *)
C17_Witness ==
  /\ last.op = "set_state"
  /\ \E b \in DOMAIN state \ {last.agent} :
       state[b].content # state[last.agent].content
  /\ getState(DB, last.agent, now).result.content = last.data.content

----------------------------------------------------------------------------
(* Updates of existing records *)

(* a store of the given kind succeeded under an id its table already held *)
IsUpdateOf(kind) ==
  /\ IsStoreStep
  /\ last'.ok
  /\ last'.kind = kind
  /\ last'.id \in DOMAIN DB[TableName(kind)]

(* C18: a store of a summary under an existing id sets content and
   event_count from the payload and leaves created_at, type, period and
   agent_id of the row as they were. *)
C18_SummaryUpdateKeepsRest ==
  [][IsUpdateOf("summary")
       => LET old == summaries[last'.id]
              new == summaries'[last'.id]
              d == last'.data
          IN /\ new.content = d.content
             /\ new.event_count = (IF Has(d, "event_count") THEN d.event_count ELSE 0)
             /\ new.created_at = old.created_at
             /\ new.type = old.type
             /\ new.period = old.period
             /\ new.agent_id = old.agent_id]_vars

(* a summary stored at one second was stored again, at a later second, with
   another type, period, content and event_count *)
C18_Witness ==
  /\ last.op = "store" /\ last.kind = "summary" /\ last.ok
  /\ last.data = WithId(SummaryOther, SummaryId1)
  /\ SummaryId1 \in DOMAIN summaries
  /\ summaries[SummaryId1].type = TypeW
  /\ summaries[SummaryId1].content = ContentNew
  /\ summaries[SummaryId1].created_at < now

(* C19: a store of an entity under an existing id sets content, updated_at
   and metadata and leaves type and name; a store of a principle under an
   existing id sets content, source_lessons, metadata and updated_at and
   leaves name and created_at, whatever the payload carries. *)
C19_EntityPrincipleUpdateKeepsRest ==
  [][/\ IsUpdateOf("entity")
          => LET old == entities[last'.id]
                 new == entities'[last'.id]
                 d == last'.data
             IN /\ new.content = d.content
                /\ new.updated_at = now
                /\ new.metadata = Stringify(d, "metadata", EmptyObjectText)
                /\ new.type = old.type
                /\ new.name = old.name
     /\ IsUpdateOf("principle")
          => LET old == principles[last'.id]
                 new == principles'[last'.id]
                 d == last'.data
             IN /\ new.content = d.content
                /\ new.source_lessons = Stringify(d, "source_lessons", EmptyArrayText)
                /\ new.metadata = Stringify(d, "metadata", EmptyObjectText)
                /\ new.updated_at = now
                /\ new.name = old.name
                /\ new.created_at = old.created_at]_vars

(* an entity and a principle stored at one second; the principle was stored
   again, at a later second, under another name with other content, and the
   entity was stored again with another type and name *)
C19_Witness ==
  /\ last.op = "store" /\ last.kind \in {"entity", "principle"} /\ last.ok
  /\ \/ /\ last.data = WithId(PrincipleOther, PrincipleIdP)
        /\ PrincipleIdP \in DOMAIN principles
        /\ principles[PrincipleIdP].name = NameP
        /\ principles[PrincipleIdP].content = ContentNew
        /\ principles[PrincipleIdP].created_at < principles[PrincipleIdP].updated_at
     \/ /\ last.data = WithId(EntityOther, EntityId1)
        /\ EntityId1 \in DOMAIN entities
        /\ entities[EntityId1].name = NameAnn
        /\ entities[EntityId1].type = TypeP
        /\ entities[EntityId1].content = ContentNew
        /\ entities[EntityId1].updated_at = now
        /\ now > StartTime

----------------------------------------------------------------------------
(* Recall *)

(* the column a kind is ordered by *)
SortKey(type) ==
  IF type \in {"events", "lessons"} THEN "timestamp"
  ELSE IF type \in {"entities", "principles"} THEN "updated_at"
  ELSE "created_at"

(* filters with a value for every kind *)
RecallFilters(type) ==
  IF type = "events"
  THEN {<<>>, [tier |-> "hot"], [tier |-> "warm"], [event_type |-> "note"],
        [since |-> StartTime - HotAge + 1], [until |-> StartTime - HotAge],
        [tier |-> "warm", event_type |-> "work", since |-> StartTime - HotAge,
         until |-> StartTime]}
  ELSE IF type = "entities" THEN {<<>>, [entity_type |-> TypeT]}
  ELSE IF type = "lessons"
  THEN {<<>>, [lesson_type |-> "mistake"], [since |-> StartTime + 1],
        [lesson_type |-> "obs", since |-> StartTime + 1]}
  ELSE IF type = "principles" THEN {<<>>}
  ELSE {<<>>, [summary_type |-> TypeM], [since |-> StartTime + 1],
        [summary_type |-> TypeW, since |-> StartTime + 1]}

RecallLimits == {1, 2, RecallLimit}

(* rows is a correct answer: as many of the matching records as the limit
   allows, each once, in descending order of the key, none of them older
   than a matching record left out *)
IsNewestFirst(rows, table, matching, key, limit) ==
  /\ Len(rows) = Min(limit, Cardinality(matching))
  /\ RowIds(rows) \subseteq matching
  /\ Cardinality(RowIds(rows)) = Len(rows)
  /\ \A i \in 1..Len(rows) : rows[i][key] = table[rows[i].id][key]
  /\ \A i \in 1..(Len(rows) - 1) : rows[i][key] >= rows[i + 1][key]
  /\ \A id \in matching \ RowIds(rows) : table[id][key] <= rows[Len(rows)][key]

(* C20: recall returns as many records as the limit allows, each owned by the
   agent and satisfying every filter, in descending order of the kind's date
   column, and the records left out are no newer than the ones returned. *)
C20_RecallNewestFirst ==
  \A a \in Agents : \A type \in RecallTypes :
    \A f \in RecallFilters(type) : \A limit \in RecallLimits :
      LET matching == {id \in OwnedBy(DB[type], a) : Satisfies(type, DB[type][id], f)}
          r == recall(DB, a, type, f, limit)
      IN r.ok /\ IsNewestFirst(r.rows, DB[type], matching, SortKey(type), limit)

(* a recall was issued for an agent that owns more events than the default
   limit, of different dates: the recall returns 20 of them and leaves out
   only events older than every one returned *)
C20_Witness ==
  /\ last.op = "recall"
  /\ Cardinality(OwnedBy(events, last.agent)) > RecallLimit
  /\ LET rows == recall(DB, last.agent, "events", <<>>, RecallLimit).rows
     IN /\ Len(rows) = RecallLimit
        /\ rows[1].timestamp > rows[RecallLimit].timestamp
        /\ \A id \in OwnedBy(events, last.agent) \ RowIds(rows) :
             events[id].timestamp < rows[RecallLimit].timestamp

----------------------------------------------------------------------------
(* Recall of an unknown type *)

(* C21: a recall of a type that is none of the five fails, returns no
   record, and leaves every table and the index as they were. *)
C21_UnknownRecallTypeFails ==
  [][(last'.op = "recall" /\ last'.kind \in UnknownTypes /\ last' # last)
       => LET r == recall(DB, last'.agent, last'.kind, <<>>, RecallLimit)
          IN /\ ~r.ok
             /\ ~last'.ok
             /\ r.rows = <<>>
             /\ DBnext = DB]_vars

(* a recall of an unknown type failed for an agent that owns events *)
C21_Witness ==
  /\ last.op = "recall"
  /\ last.kind \in UnknownTypes
  /\ ~last.ok
  /\ OwnedBy(events, last.agent) # {}
  /\ recall(DB, last.agent, "events", <<>>, RecallLimit).rows # <<>>

----------------------------------------------------------------------------
(* Search *)

HitKind(type) ==
  IF type = "event" THEN "events" ELSE IF type = "entity" THEN "entities" ELSE "lessons"

SearchTypeSets == {SearchTypes, {"events"}, {"entities", "lessons"}, {}}

SearchLimits == {1, SearchLimit}

(* the indexed records of the agent that match the query, as <<kind, id>> *)
Matching(db, agentId, queryText, types) ==
  UNION {{<<kind, id>> : id \in matchIds(db, kind, agentId, queryText)} : kind \in types}

HitKeys(hits) == {<<HitKind(hits[i].type), hits[i].id>> : i \in 1..Len(hits)}

(* C22: a search returns hits of the requested kinds only, each a matching
   record of the agent and each once, as many as the limit allows over the
   merged list, in non-decreasing order of score, and no matching record left
   out has a better score than a hit returned. *)
C22_SearchBestOfMerged ==
  \A a \in Agents : \A q \in Queries : \A types \in SearchTypeSets :
    \A limit \in SearchLimits :
      LET hits == search(DB, a, q, types, limit)
          all == Matching(DB, a, q, types)
      IN /\ \A i \in 1..Len(hits) : HitKind(hits[i].type) \in types
         /\ HitKeys(hits) \subseteq all
         /\ Cardinality(HitKeys(hits)) = Len(hits)
         /\ Len(hits) = Min(limit, Cardinality(all))
         /\ \A i \in 1..Len(hits) :
              hits[i].score = rank(DB, HitKind(hits[i].type),
                                   DB[HitKind(hits[i].type)][hits[i].id].rowid)
         /\ \A i \in 1..(Len(hits) - 1) : hits[i].score <= hits[i + 1].score
         /\ \A m \in all \ HitKeys(hits) :
              rank(DB, m[1], DB[m[1]][m[2]].rowid) >= hits[Len(hits)].score

(* a search was issued for an agent with matching records of two kinds and
   of different scores: limit 1 returns the better one alone, the default
   limit returns both *)
C22_Witness ==
  /\ last.op = "search"
  /\ \E q \in Queries :
       LET all == search(DB, last.agent, q, SearchTypes, SearchLimit)
           one == search(DB, last.agent, q, SearchTypes, 1)
       IN /\ Len(all) = 2
          /\ all[1].type # all[2].type
          /\ all[1].score < all[2].score
          /\ one = <<all[1]>>

----------------------------------------------------------------------------
(* Lessons of a session *)

Unconsolidated(table, agentId) ==
  {id \in OwnedBy(table, agentId) : table[id].consolidated_to = NullRef}

(* C23: the recent lessons of a session are the newest unconsolidated
   lessons of the agent, at most 10, in descending order of timestamp: a
   lesson whose consolidated_to is set is never among them, an unconsolidated
   one is unless 10 others come first; a consolidated lesson is returned by
   a recall of the agent's lessons whose limit covers them. *)
C23_RecentLessonsUnconsolidated ==
  \A a \in Agents :
    LET recent == getSession(DB, a, now).result.recent_lessons
        recalled == recall(DB, a, "lessons", <<>>, RecallLimit).rows
    IN /\ IsNewestFirst(recent, lessons, Unconsolidated(lessons, a),
                        "timestamp", LessonLimit)
       /\ Len(recent) <= LessonLimit
       /\ \A id \in OwnedBy(lessons, a) :
            /\ lessons[id].consolidated_to # NullRef => id \notin RowIds(recent)
            /\ (lessons[id].consolidated_to = NullRef
                  /\ Cardinality(Unconsolidated(lessons, a)) <= LessonLimit)
                 => id \in RowIds(recent)
            /\ (lessons[id].consolidated_to # NullRef
                  /\ Cardinality(OwnedBy(lessons, a)) <= RecallLimit)
                 => id \in RowIds(recalled)

(* a session was read for an agent with more than 10 unconsolidated lessons
   and a consolidated one newer than all of them: the session returns 10
   lessons without the consolidated one, the recall returns it *)
C23_Witness ==
  /\ last.op = "session"
  /\ Cardinality(Unconsolidated(lessons, last.agent)) > LessonLimit
  /\ \E id \in OwnedBy(lessons, last.agent) :
       /\ lessons[id].consolidated_to # NullRef
       /\ \A o \in Unconsolidated(lessons, last.agent) :
            lessons[o].timestamp < lessons[id].timestamp
       /\ id \notin RowIds(getSession(DB, last.agent, now).result.recent_lessons)
       /\ id \in RowIds(recall(DB, last.agent, "lessons", <<>>, RecallLimit).rows)
  /\ Len(getSession(DB, last.agent, now).result.recent_lessons) = LessonLimit

(* the value a store binds for an optional reference of the payload *)
RefOf(d, k) == IF Has(d, k) /\ d[k] # <<>> THEN d[k] ELSE NullRef

(* C27: a store of a lesson under an existing id sets consolidated_to and
   source_event_id to the payload's values, null where the payload omits
   them; a lesson so unconsolidated is among the recent lessons of its
   agent's session unless 10 unconsolidated lessons come before it. *)
C27_LessonUpdateReplacesRefs ==
  [][IsUpdateOf("lesson")
       => LET id == last'.id
              new == lessons'[id]
              d == last'.data
              owner == new.agent_id
              ahead == {o \in Unconsolidated(lessons', owner) :
                          lessons'[o].timestamp >= new.timestamp}
          IN /\ new.consolidated_to = RefOf(d, "consolidated_to")
             /\ new.source_event_id = RefOf(d, "source_event_id")
             /\ (new.consolidated_to = NullRef /\ Cardinality(ahead) <= LessonLimit)
                  => id \in RowIds(getSession(DBnext, owner, now').result.recent_lessons)]_vars

(* the second store of the run stored the lesson of an id again, with a
   payload that carries neither consolidated_to nor source_event_id: the
   lesson holds neither and is among the recent lessons of the session *)
C27_Witness ==
  /\ last.op = "store" /\ last.kind = "lesson" /\ last.ok
  /\ last.data = WithId(LessonOld, LessonId1)
  /\ ops = MaxOps
  /\ DOMAIN lessons = {LessonId1}
  /\ lessons[LessonId1].consolidated_to = NullRef
  /\ lessons[LessonId1].source_event_id = NullRef
  /\ LessonId1 \in RowIds(getSession(DB, AgentA, now).result.recent_lessons)

----------------------------------------------------------------------------
(* Round trip of an event *)

(* the row of an id among recalled rows *)
RowOf(rows, id) == rows[CHOOSE i \in 1..Len(rows) : rows[i].id = id]

(* C24: after a store that creates an event, the recall of the agent's
   events holds a row of the returned id with the payload's type, title and
   content, the payload's metadata or the empty object, and tier hot,
   whatever tier and timestamp the payload carries. *)
C24_EventRoundTrip ==
  [][(IsStoreStep /\ last'.ok /\ last'.kind = "event" /\ last'.id \notin DOMAIN events)
       => LET rows == recall(DBnext, last'.agent, "events", <<>>, RecallLimit).rows
              d == last'.data
          IN /\ last'.id \in RowIds(rows)
             /\ LET row == RowOf(rows, last'.id)
                IN /\ row.type = d.type
                   /\ row.title = d.title
                   /\ row.content = d.content
                   /\ row.metadata = (IF Has(d, "metadata") THEN d.metadata ELSE <<>>)
                   /\ row.tier = "hot"]_vars

(* an event was created from a payload that carries tier cold and a
   metadata object of two members: it is stored hot with the object's JSON
   text, and the recall returns the object *)
C24_Witness ==
  /\ last.op = "store" /\ last.kind = "event" /\ last.ok
  /\ last.data = EventCold
  /\ last.id \in DOMAIN events
  /\ events[last.id].tier = "hot"
  /\ events[last.id].metadata = <<123, 34, 107, 34, 58, 49, 44, 34, 106, 34, 58, 50, 125>>
  /\ RowOf(recall(DB, last.agent, "events", <<>>, RecallLimit).rows, last.id).metadata
       = EventCold.metadata

----------------------------------------------------------------------------
(* Freshness of synthesized ids *)

(* C25: a completed store of an event or lesson without an id works on an
   id its table did not hold: it inserts and overwrites no record. *)
C25_IdlessStoreCreates ==
  [][IsIdlessStore
       => /\ last'.id \notin DOMAIN DB[TableName(last'.kind)]
          /\ DOMAIN DBnext[TableName(last'.kind)]
               = DOMAIN DB[TableName(last'.kind)] \cup {last'.id}
          /\ \A id \in DOMAIN DB[TableName(last'.kind)] :
               DBnext[TableName(last'.kind)][id] = DB[TableName(last'.kind)][id]]_vars

----------------------------------------------------------------------------
(* The session and the read primitives *)

(* C26: the hot events of a session are the recall of the agent's events
   with tier hot and limit 20, its principles are the recall of the agent's
   principles with a limit that leaves none out, its recent summary is a
   summary of the agent with the greatest created_at, none when the agent
   has no summary, and each count is the length of the list returned. *)
C26_SessionFromPrimitives ==
  \A a \in Agents :
    LET s == getSession(DB, a, now).result
        own == OwnedBy(summaries, a)
    IN /\ s.hot_events = recall(DB, a, "events", [tier |-> "hot"], HotLimit).rows
       /\ s.principles
            = recall(DB, a, "principles", <<>>, Cardinality(DOMAIN principles) + 1).rows
       /\ Len(s.principles) = Cardinality(OwnedBy(principles, a))
       /\ (own = {}) = (s.recent_summary = <<>>)
       /\ own # {} =>
            /\ Len(s.recent_summary) = 1
            /\ s.recent_summary[1].id \in own
            /\ s.recent_summary[1] = SummaryOut(DB, s.recent_summary[1].id)
            /\ \A id \in own : summaries[id].created_at <= s.recent_summary[1].created_at
       /\ s.counts = [hot_events |-> Len(s.hot_events),
                      principles |-> Len(s.principles),
                      recent_lessons |-> Len(s.recent_lessons)]

(* the session was read for an agent with more hot events than the limit of
   20: it returns 20 hot events, the ones the recall returns, and counts 20 *)
C26_Witness ==
  /\ last.op = "session"
  /\ Cardinality({id \in OwnedBy(events, last.agent) : events[id].tier = "hot"}) > HotLimit
  /\ LET s == getSession(DB, last.agent, now).result
     IN /\ Len(s.hot_events) = HotLimit
        /\ s.counts.hot_events = HotLimit
        /\ s.hot_events[1].timestamp > s.hot_events[HotLimit].timestamp
        /\ s.hot_events = recall(DB, last.agent, "events", [tier |-> "hot"], HotLimit).rows

----------------------------------------------------------------------------
(* Update of an event *)

(* C28: a store of an event under an existing id sets type, title, content
   and metadata from the payload and the timestamp from the payload or the
   clock; the event keeps its agent_id and its row, and its tier is the one
   the command's tiering pass gave it from the timestamp it had.  No event
   that exists changes its tier in a step but by the pass of a store
   command. *)
C28_EventUpdateKeepsTier ==
  [][/\ IsUpdateOf("event")
          => LET old == events[last'.id]
                 new == events'[last'.id]
                 d == last'.data
             IN /\ new.type = d.type
                /\ new.title = d.title
                /\ new.content = d.content
                /\ new.metadata = (IF Has(d, "metadata") THEN ObjectText(d.metadata)
                                   ELSE EmptyObjectText)
                /\ new.timestamp = (IF Has(d, "timestamp") THEN d.timestamp ELSE now)
                /\ new.agent_id = old.agent_id
                /\ new.rowid = old.rowid
                /\ new.tier = updateTiers(DB, now).events[last'.id].tier
     /\ \A id \in DOMAIN events :
          \/ events'[id].tier = events[id].tier
          \/ /\ IsStoreStep
             /\ events'[id].tier = updateTiers(DB, now).events[id].tier]_vars

(* an event stored with a timestamp 30 days back was stored again under its
   id without a timestamp: its timestamp is the time of the second store and
   its tier is warm, the tier the pass of that store gave it *)
C28_Witness ==
  /\ last.op = "store" /\ last.kind = "event" /\ last.ok /\ last.given
  /\ last.id \in DOMAIN events
  /\ ~Has(last.data, "timestamp")
  /\ events[last.id].timestamp = now
  /\ events[last.id].tier = "warm"
  /\ events[last.id].title = last.data.title

----------------------------------------------------------------------------
(* Snippets.  A specification in which one agent stores events whose
   contents are longer than a snippet, hold the query's term near the start,
   in the middle or near the end, do not hold it at all, or are empty, and
   then searches. *)

(* n characters of "z z z ", ending in a space *)
Pad(n) == [i \in 1..n |-> IF (n - i) % 2 = 0 THEN 32 ELSE 122]

(* n characters of " z z z", starting with a space *)
PadAfter(n) == [i \in 1..n |-> IF i % 2 = 1 THEN 32 ELSE 122]

(* a content of n characters with "JWT" at position p *)
ContentAt(p, n) == Pad(p) \o ContentNew \o PadAfter(n - p - Len(ContentNew))

(* "jwt" at 90 and "old" behind it *)
ContentBoth == Pad(90) \o ContentOld

EventWith(content) == [type |-> "work", title |-> ContentNew, content |-> content]

SnippetInputs ==
  {EventWith(ContentAt(10, 200)), EventWith(ContentAt(75, 200)),
   EventWith(ContentAt(76, 200)), EventWith(ContentAt(100, 175)),
   EventWith(ContentAt(100, 176)), EventWith(ContentBoth),
   EventWith(Pad(SnippetLength)), EventWith(Pad(SnippetLength + 10)),
   EventWith(Pad(10)), EventWith(<<>>), EventNew}

(* "jwt", "JWT", "old jwt", and "jwt " with a space behind the term *)
SnippetQueries == {<<106, 119, 116>>, <<74, 87, 84>>,
                   <<111, 108, 100, 32, 106, 119, 116>>,
                   <<106, 119, 116, 32>>}

NextSnippet ==
  \/ \E data \in SnippetInputs : Store(AgentA, "event", data)
  \/ Search(AgentA)

SpecSnippet == Init /\ [][NextSnippet]_vars

(* the terms of a query: its parts between runs of white space, lower-cased *)
QueryTerms(queryText) ==
  LET parts == SplitWs(LowerStr(queryText), 1, <<>>)
  IN {parts[k] : k \in 1..Len(parts)} \ {<<>>}

(* the positions of the content at which a term of the query starts *)
Occurrences(text, queryText) ==
  {p \in 0..Len(text) : \E w \in QueryTerms(queryText) :
     /\ p + Len(w) <= Len(text)
     /\ SubSeq(LowerStr(text), p + 1, p + Len(w)) = w}

WindowOf(text, queryText) ==
  LET occ == Occurrences(text, queryText)
  IN IF occ = {}
     THEN SubSeq(text, 1, Min(SnippetLength, Len(text))) \o Ellipsis
     ELSE LET p == CHOOSE i \in occ : \A j \in occ : i <= j
              a == Max(0, p - 75)
              b == Min(Len(text), p + 75)
          IN (IF a > 0 THEN Ellipsis ELSE <<>>) \o SubSeq(text, a + 1, b)
               \o (IF b < Len(text) THEN Ellipsis ELSE <<>>)

(* C29: the snippet of every hit of a search is the window of 150
   characters of the record's content around the earliest position of a
   term of the query, with an ellipsis at each end that is not an end of the
   content, or the first 150 characters and an ellipsis when the content
   holds no term; it is not empty and not longer than 156 characters. *)
C29_SnippetIsWindow ==
  \A q \in SnippetQueries :
    LET hits == search(DB, AgentA, q, SearchTypes, SearchLimit)
    IN \A i \in 1..Len(hits) :
         /\ hits[i].snippet = WindowOf(events[hits[i].id].content, q)
         /\ hits[i].snippet # <<>>
         /\ Len(hits[i].snippet) <= SnippetLength + 2 * Len(Ellipsis)

----------------------------------------------------------------------------
(* The handle.  A specification of one process that calls getDb and resetDb
   and assigns process.env.AGENTMEM_DB_PATH between the calls. *)

HandlePaths == {MemoryPath, "a.db"}

HandleStep(op) ==
  /\ last' = [op |-> op, agent |-> NoId, kind |-> "", ok |-> TRUE,
              id |-> NoId, given |-> FALSE, data |-> <<>>]
  /\ UNCHANGED <<procs, dbvars, now, ticks, ops>>

GetDb ==
  /\ Len(conn.returned) < MaxCalls
  /\ conn' = getDb(conn)
  /\ HandleStep("getDb")

ResetDb(newPath) ==
  /\ conn' = resetDb(conn, newPath)
  /\ HandleStep("resetDb")

SetEnv(path) ==
  /\ conn' = [conn EXCEPT !.env = path]
  /\ HandleStep("setEnv")

NextHandle ==
  \/ GetDb
  \/ \E newPath \in HandlePaths \cup {NullPath} : ResetDb(newPath)
  \/ \E path \in HandlePaths \cup {"", DEFAULT_DB_PATH} : SetEnv(path)

SpecHandle == Init /\ [][NextHandle]_vars

(* C30: no handle is open before the first getDb and at most one is open at
   any time, the one db holds.  A getDb returns the open handle when there
   is one and it was opened with the configured path; otherwise it closes
   the open handle, if any, and returns a handle never returned before,
   opened with the configured path.  The database of the returned handle
   has user_version 1 and its schema has been initialised once.  A resetDb
   leaves no handle open, and only getDb opens a handle. *)
C30_HandleIsLazySingleton ==
  [][/\ Cardinality(conn'.open) <= 1
     /\ conn'.open = (IF conn'.db = NullHandle THEN {} ELSE {conn'.db})
     /\ Len(conn'.returned) > Len(conn.returned)
          => LET path == getDbPath(conn)
                 same == conn.db # NullHandle /\ conn.currentDbPath = path
                 h == conn'.returned[Len(conn'.returned)]
                 database == DatabaseOf(conn'.pathOf[h], h)
             IN /\ conn'.open = {h}
                /\ conn'.pathOf[h] = path
                /\ same => h = conn.db /\ conn'.opened = conn.opened
                /\ ~same => /\ \A k \in 1..Len(conn.returned) : conn.returned[k] # h
                            /\ h # conn.db
                            /\ conn'.opened = conn.opened + 1
                /\ database \in DOMAIN conn'.schemas
                /\ conn'.schemas[database].user_version = 1
                /\ conn'.schemas[database].inits = 1
     /\ last'.op = "resetDb" => conn'.open = {}
     /\ Len(conn'.returned) = Len(conn.returned)
          => conn'.opened = conn.opened /\ conn'.open \subseteq conn.open]_vars

(* a file database was opened, the handle was returned twice, closed by a
   resetDb, and a second handle was opened on the file: its schema has been
   initialised once *)
C30_Witness ==
  /\ last.op = "getDb"
  /\ Len(conn.returned) >= 3
  /\ conn.returned[1] = conn.returned[2]
  /\ conn.db = 2 /\ conn.open = {2}
  /\ conn.pathOf = <<"a.db", "a.db">>
  /\ conn.schemas[<<"a.db", 0>>].inits = 1

=============================================================================
